---- MODULE Spec2Model ----
(***************************************************************************)
(* Execution host (HostContext) over a rollbackable key-value storage, and *)
(* the flat state-key codec (StateKeyResolver) of FISCO-BCOS.              *)
(*                                                                         *)
(* Byte strings are sequences of integers 0..255.  An optional value       *)
(* (std::optional, an iterator without value) is a sequence of length at   *)
(* most one: <<>> is "absent", <<e>> holds e.                              *)
(***************************************************************************)
EXTENDS Integers, Sequences, FiniteSets, TLC

VARIABLES
    store,      \* m_rollbackableStorage: [kv: key -> entry, records: write journal]
    stack,      \* the Hosts of the current call tree, top-level Host first
    seq,        \* the shared call-sequence counter (int64_t& m_seq)
    tx,         \* per-transaction inputs shared by the tree: block number, context id
    fatal,      \* the exception that unwound the tree ("none" while there is none)
    steps,      \* host-interface callbacks made by the interpreter in this transaction
    started,    \* whether the top-level caller has started the transaction
    event,      \* the last savepoint operation issued on the storage
    ret,        \* what the last host-interface call handed back to its caller
    derived,    \* addressing: two CREATE Hosts constructed side by side
    encoded,    \* codec: two state keys encoded side by side
    other,      \* the suspended one of two top-level executions: its Host state
    features,   \* Features: the flags that are set
    got,        \* Features: the answer of the last get
    txPoolNonces, \* TxValidator: the nonces held by m_txPoolNonceChecker
    verified,   \* TxValidator: the transaction last verified and its status
    stateKey,   \* codec: the state key last encoded
    dbKey,      \* codec: the flat key last produced or decoded
    decoded     \* codec: the outcome of the last decode

hostVars == <<store, stack, seq, tx, fatal, steps, started, event, ret>>
codecVars == <<stateKey, dbKey, decoded>>
addressVars == <<derived>>
pairVars == <<encoded>>
featureVars == <<features, got>>
validatorVars == <<txPoolNonces, verified>>
\* what an operation of a Host, and what an operation of the codec, leaves alone
nonHostVars == <<stateKey, dbKey, decoded, derived, encoded, other, features, got,
                txPoolNonces, verified>>
nonCodecVars == <<store, stack, seq, tx, fatal, steps, started, event, ret,
                 derived, encoded, other, features, got, txPoolNonces, verified>>
vars == <<store, stack, seq, tx, fatal, steps, started, event, ret, derived,
         stateKey, dbKey, decoded, encoded, other, features, got,
         txPoolNonces, verified>>

---------------------------------------------------------------------------
(* Bounds of the model *)

MaxLen == 3        \* longest table name / key / flat key of the codec inputs
MaxDepth == 3      \* Hosts alive at once (top-level Host plus nested ones)
MaxSteps == 3      \* interpreter callbacks per transaction
PairSteps == 2     \* interpreter callbacks of each of two interleaved executions
MaxNonce == 2      \* distinct nonces of the transactions handed to the validator

---------------------------------------------------------------------------
(* Byte strings *)

Zeros(n) == [i \in 1..n |-> 0]

RECURSIVE Find(_, _, _)
\* std::string_view::find(c) from position i (1-based); 0 stands for npos
Find(view, c, i) ==
    IF i > Len(view) THEN 0
    ELSE IF view[i] = c THEN i
    ELSE Find(view, c, i + 1)

RECURSIVE FindLast(_, _, _)
FindLast(view, c, i) ==
    IF i < 1 THEN 0
    ELSE IF view[i] = c THEN i
    ELSE FindLast(view, c, i - 1)

Contains(view, c) == Find(view, c, 1) # 0

---------------------------------------------------------------------------
(* StateKeyResolver: the flat key codec *)

TABLE_KEY_SPLIT == 58      \* ':'

\* an encode that leaves the separator out
encodeNoSplit(sk) == sk[1] \o sk[2]

\* StateKeyResolver::encode: table bytes, the separator, key bytes
encode(sk) == sk[1] \o <<TABLE_KEY_SPLIT>> \o sk[2]

InvalidStateKey == [ok |-> FALSE, error |-> "InvalidStateKey", key |-> <<>>]

Decoded(table, key) == [ok |-> TRUE, error |-> "", key |-> <<table, key>>]

\* a decode that splits at the last separator instead of the first
decodeAtLast(buffer) ==
    LET pos == FindLast(buffer, TABLE_KEY_SPLIT, Len(buffer)) IN
    IF pos = 0 THEN InvalidStateKey
    ELSE LET tableRange == SubSeq(buffer, 1, pos - 1)
             keyRange == SubSeq(buffer, pos + 1, Len(buffer))
         IN IF tableRange = <<>> \/ keyRange = <<>> THEN InvalidStateKey
            ELSE Decoded(tableRange, keyRange)

\* a decode that ends the key at the next separator
decodeToNext(buffer) ==
    LET pos == Find(buffer, TABLE_KEY_SPLIT, 1) IN
    IF pos = 0 THEN InvalidStateKey
    ELSE LET next == Find(buffer, TABLE_KEY_SPLIT, pos + 1)
             tableRange == SubSeq(buffer, 1, pos - 1)
             keyRange == SubSeq(buffer, pos + 1,
                                IF next = 0 THEN Len(buffer) ELSE next - 1)
         IN IF tableRange = <<>> \/ keyRange = <<>> THEN InvalidStateKey
            ELSE Decoded(tableRange, keyRange)

\* a decode that rejects an empty table but lets an empty key through
decodeNoKeyCheck(buffer) ==
    LET pos == Find(buffer, TABLE_KEY_SPLIT, 1) IN
    IF pos = 0 THEN InvalidStateKey
    ELSE LET tableRange == SubSeq(buffer, 1, pos - 1)
             keyRange == SubSeq(buffer, pos + 1, Len(buffer))
         IN IF tableRange = <<>> THEN InvalidStateKey
            ELSE Decoded(tableRange, keyRange)

\* StateKeyResolver::decode: split at the first separator; a missing
\* separator, an empty table or an empty key throws InvalidStateKey
decode(buffer) ==
    LET pos == Find(buffer, TABLE_KEY_SPLIT, 1) IN
    IF pos = 0 THEN InvalidStateKey
    ELSE LET tableRange == SubSeq(buffer, 1, pos - 1)
             keyRange == SubSeq(buffer, pos + 1, Len(buffer))
         IN IF tableRange = <<>> \/ keyRange = <<>> THEN InvalidStateKey
            ELSE Decoded(tableRange, keyRange)

CodecBytes == {TABLE_KEY_SPLIT, 97, 0}

ByteStrings(n) == UNION {[1..m -> CodecBytes] : m \in 0..n}

NoDecode == [ok |-> FALSE, error |-> "none", key |-> <<>>]

CodecInit ==
    /\ stateKey = <<<<>>, <<>>>>
    /\ dbKey = <<>>
    /\ decoded = NoDecode

\* a caller encodes a state key (any table and key: encode validates nothing)
\* and decodes the flat key it got
EncodeDecode(table, key) ==
    /\ stateKey' = <<table, key>>
    /\ dbKey' = encode(<<table, key>>)
    /\ decoded' = decode(encode(<<table, key>>))
    /\ UNCHANGED nonCodecVars

\* the bytes of the pairs encoded side by side
PairBytes == {TABLE_KEY_SPLIT, 97}

PairStrings(n) == UNION {[1..m -> PairBytes] : m \in 0..n}

PairInit == encoded = <<>>

\* a state key with the flat key encode gives for it
Encoded(table, key) ==
    [stateKey |-> <<table, key>>, dbKey |-> encode(<<table, key>>)]

\* two callers encode a state key each
EncodePair(table1, key1, table2, key2) ==
    /\ encoded = <<>>
    /\ encoded' = <<Encoded(table1, key1), Encoded(table2, key2)>>
    /\ UNCHANGED <<hostVars, codecVars, addressVars, other, featureVars, validatorVars>>

\* a caller decodes a flat key read from the database
DecodeRaw(buffer) ==
    /\ stateKey' = <<<<>>, <<>>>>
    /\ dbKey' = buffer
    /\ decoded' = decode(buffer)
    /\ UNCHANGED nonCodecVars

---------------------------------------------------------------------------
(* Hashing and addresses *)

HashSize == 32          \* bytes of a crypto::HashType
AddressSize == 20       \* sizeof(evmc_address.bytes)
WordSize == 32          \* sizeof(evmc_bytes32.bytes)

\* GlobalHashImpl::g_hashImpl->hash: an opaque collision-free hash, modelled
\* as an injective padding of its input (inputs are shorter than 19 bytes,
\* so the first AddressSize bytes are injective too)
hash(data) == <<255, Len(data)>> \o data \o Zeros(HashSize - 2 - Len(data))

RECURSIVE Dec(_)
\* fmt's "{}" of an integer: decimal digits, '-' before a negative number
Dec(n) ==
    IF n < 0 THEN <<45>> \o Dec(-n)
    ELSE IF n < 10 THEN <<48 + n>>
    ELSE Dec(n \div 10) \o <<48 + (n % 10)>>

\* a format that puts the context id before the block number
FormatSwapped(number, contextID, s) ==
    Dec(contextID) \o <<95>> \o Dec(number) \o <<95>> \o Dec(s)

\* a format that leaves the separators out
FormatNoSeparator(number, contextID, s) ==
    Dec(number) \o Dec(contextID) \o Dec(s)

\* fmt::format("{}_{}_{}", number, contextID, seq)
Format(number, contextID, s) ==
    Dec(number) \o <<95>> \o Dec(contextID) \o <<95>> \o Dec(s)

\* an address whose big-endian value is n (n < 2^24)
Addr(n) ==
    Zeros(AddressSize - 3) \o <<n \div 65536, (n \div 256) % 256, n % 256>>

EMPTY_ADDRESS == Zeros(AddressSize)

U160Cap == 16777216

\* fromBigEndian<u160>(address bytes), saturated at U160Cap: every value it
\* is compared with is below U160Cap
fromBigEndian(bytes) ==
    IF \E i \in 1..(AddressSize - 3) : bytes[i] # 0 THEN U160Cap
    ELSE bytes[AddressSize - 2] * 65536 + bytes[AddressSize - 1] * 256
         + bytes[AddressSize]

\* a storage slot key or value whose last byte is n
Word(n) == Zeros(WordSize - 1) \o <<n>>

USER_APPS_PREFIX == <<47, 97, 112, 112, 115, 47>>                  \* "/apps/"
ACCOUNT_CODE_HASH == <<99, 111, 100, 101, 72, 97, 115, 104>>       \* "codeHash"
\* "s_code_binary"
SYS_CODE_BINARY == <<115, 95, 99, 111, 100, 101, 95, 98, 105, 110, 97, 114, 121>>
\* "s_contract_abi"
SYS_CONTRACT_ABI ==
    <<115, 95, 99, 111, 110, 116, 114, 97, 99, 116, 95, 97, 98, 105>>

\* getTableNameID: the prefix followed by the raw address bytes; the pool
\* hands out one handle per content, so the handle is the name itself
getTableNameID(address) == USER_APPS_PREFIX \o address

---------------------------------------------------------------------------
(* The rollbackable storage: a key-value view plus the journal of the      *)
(* writes made through it.  kv is a set of <<key, entry>> pairs with at    *)
(* most one pair per key; a journal record is <<key, old optional entry>>. *)

\* read of one key: the optional entry
read(st, key) ==
    LET hit == {r \in st.kv : r[1] = key} IN
    IF hit = {} THEN <<>> ELSE <<(CHOOSE r \in hit : TRUE)[2]>>

\* storage2::existsOne
existsOne(st, key) == read(st, key) # <<>>

\* kv with key bound to the optional entry opt (absent removes the key)
Put(kv, key, opt) ==
    {r \in kv : r[1] # key} \cup (IF opt = <<>> THEN {} ELSE {<<key, opt[1]>>})

\* a write that reaches the backing storage without being journaled
writeUnjournaled(st, key, entry) ==
    [kv |-> Put(st.kv, key, <<entry>>), records |-> st.records]

\* write of one key: journal the old value, then overwrite
write(st, key, entry) ==
    [kv |-> Put(st.kv, key, <<entry>>),
     records |-> Append(st.records, <<key, read(st, key)>>)]

\* a storage view holding the content kv
View(kv) == [kv |-> kv, records |-> <<>>]

\* current(): the savepoint is the length of the journal
current(st) == Len(st.records)

RECURSIVE rollback(_, _)
\* rollback(savepoint): undo the journal, newest record first, down to it
rollback(st, savepoint) ==
    IF Len(st.records) <= savepoint THEN st
    ELSE LET record == st.records[Len(st.records)] IN
         rollback([kv |-> Put(st.kv, record[1], record[2]),
                   records |-> SubSeq(st.records, 1, Len(st.records) - 1)],
                  savepoint)

---------------------------------------------------------------------------
(* Messages, results and Hosts *)

EVMC_SUCCESS == 0
EVMC_REVERT == 2
MAX_PRECOMPILED_ADDRESS == 100000

Message(kind, sender, recipient, code_address, input_data) ==
    [kind |-> kind, sender |-> sender, recipient |-> recipient,
     code_address |-> code_address, input_data |-> input_data]

\* what the interpreter hands back: evmc_result with no created address
VmResult(status_code, output) ==
    [status_code |-> status_code, output |-> output,
     create_address |-> EMPTY_ADDRESS]

NoResult == VmResult(-1, <<>>)

NoEvent == [op |-> "none", savepoint |-> 0, host |-> 0]

\* an exception left the Host at depth host: no savepoint operation is issued
Thrown(host) == [op |-> "throw", savepoint |-> 0, host |-> host]

\* no host-interface call has handed anything back in the last step
NoRet == [op |-> "none"]

\* externalCall's co_return: the result for the message, with the logs of
\* the Host that ran it (none when a precompiled handler served it)
Returns(message, result, logs) ==
    [op |-> "externalCall", message |-> message, value |-> result, logs |-> logs]

\* an unwinding that stops at the parent of the newest Host, which goes on
unwindCaught(stk) ==
    IF stk = <<>> THEN <<>> ELSE SubSeq(stk, 1, Len(stk) - 1)

\* an exception propagating out of a Host of the tree: externalCall and
\* execute catch nothing, so no Host of the tree is left
unwind(stk) == <<>>

\* an address derived from the block number and the context id alone
newContractAddressNoSeq(number, contextID, s) ==
    SubSeq(hash(Format(number, contextID, 0)), 1, AddressSize)

\* the address a CREATE Host derives from (block number, context id, seq)
newContractAddress(number, contextID, s) ==
    SubSeq(hash(Format(number, contextID, s)), 1, AddressSize)

\* a getMyContractTable that takes the table of a call from the address
\* the code is looked up under
getMyContractTableOfCode(number, contextID, s, message) ==
    CASE message.kind = "EVMC_CREATE" ->
           [thrown |-> "none",
            newContractAddress |-> newContractAddress(number, contextID, s),
            table |-> getTableNameID(newContractAddress(number, contextID, s))]
      [] message.kind = "EVMC_CREATE2" ->
           [thrown |-> "Unimplement",
            newContractAddress |-> EMPTY_ADDRESS, table |-> <<>>]
      [] OTHER ->
           [thrown |-> "none",
            newContractAddress |-> EMPTY_ADDRESS,
            table |-> getTableNameID(message.code_address)]

\* getMyContractTable: the Host's table and m_newContractAddress, or the
\* exception it throws
getMyContractTable(number, contextID, s, message) ==
    CASE message.kind = "EVMC_CREATE" ->
           [thrown |-> "none",
            newContractAddress |-> newContractAddress(number, contextID, s),
            table |-> getTableNameID(newContractAddress(number, contextID, s))]
      [] message.kind = "EVMC_CREATE2" ->
           [thrown |-> "Unimplement",
            newContractAddress |-> EMPTY_ADDRESS, table |-> <<>>]
      [] OTHER ->
           [thrown |-> "none",
            newContractAddress |-> EMPTY_ADDRESS,
            table |-> getTableNameID(message.recipient)]

\* the constructor: a Host in state Created.  seq0, snap, lastSet and
\* nestedFailed are history fields: the value of m_seq the constructor read,
\* the storage content at the Host's savepoint, the Host's latest set() not
\* yet followed by a committed nested dispatch, and whether a nested call
\* that wrote and failed has returned since.
HostContext(message, number, contextID, s) ==
    LET my == getMyContractTable(number, contextID, s, message) IN
    [message |-> message,
     m_myContractTable |-> my.table,
     m_newContractAddress |-> my.newContractAddress,
     m_logs |-> <<>>,
     seq0 |-> s,
     pc |-> "created",
     savepoint |-> 0,
     vmResult |-> NoResult,
     result |-> NoResult,
     snap |-> {},
     lastSet |-> <<>>,
     nestedFailed |-> FALSE]

\* code(address): the code entry the address's code hash points to
code(st, address) ==
    LET codeHashEntry == read(st, <<getTableNameID(address), ACCOUNT_CODE_HASH>>)
    IN IF codeHashEntry # <<>>
       THEN read(st, <<SYS_CODE_BINARY, codeHashEntry[1]>>)
       ELSE <<>>

\* get(key): the first WordSize bytes of the slot's entry, or the zero word
get(st, myContractTable, key) ==
    LET it == read(st, <<myContractTable, key>>) IN
    IF it # <<>> THEN SubSeq(it[1], 1, WordSize) ELSE Zeros(WordSize)

\* codeSizeAt(address): the size of the code entry, or 0
codeSizeAt(st, address) ==
    LET codeEntry == code(st, address) IN
    IF codeEntry # <<>> THEN Len(codeEntry[1]) ELSE 0

\* an exists that looks for the code of the address
existsIfCode(st, address) == code(st, address) # <<>>

\* exists(address): true, whatever the address and the storage
exists(st, address) == TRUE

\* a codeHashAt that answers the hash of empty code for a missing field
codeHashAtOfEmpty(st, address) ==
    LET it == read(st, <<getTableNameID(address), ACCOUNT_CODE_HASH>>) IN
    IF it # <<>> THEN it[1] ELSE hash(<<>>)

\* codeHashAt(address): the code hash field, or the zero hash
codeHashAt(st, address) ==
    LET it == read(st, <<getTableNameID(address), ACCOUNT_CODE_HASH>>) IN
    IF it # <<>> THEN it[1] ELSE Zeros(HashSize)

\* a setCode(codeHash, code) that writes the code without looking it up
setCodeWithHashAlways(st, myContractTable, codeHash, code_) ==
    write(write(st, <<SYS_CODE_BINARY, codeHash>>, code_),
          <<myContractTable, ACCOUNT_CODE_HASH>>, codeHash)

\* a setCode(codeHash, code) that leaves the code-hash field alone when the
\* code table has the hash
setCodeWithHashIfNew(st, myContractTable, codeHash, code_) ==
    IF ~existsOne(st, <<SYS_CODE_BINARY, codeHash>>)
    THEN write(write(st, <<SYS_CODE_BINARY, codeHash>>, code_),
               <<myContractTable, ACCOUNT_CODE_HASH>>, codeHash)
    ELSE st

\* setCode(codeHash, code): the code under its hash unless the code table
\* has that hash, then the hash into the contract's code-hash field
setCodeWithHash(st, myContractTable, codeHash, code_) ==
    LET st1 == IF ~existsOne(st, <<SYS_CODE_BINARY, codeHash>>)
               THEN write(st, <<SYS_CODE_BINARY, codeHash>>, code_)
               ELSE st
    IN write(st1, <<myContractTable, ACCOUNT_CODE_HASH>>, codeHash)

\* setCode(code)
setCode(st, myContractTable, code_) ==
    setCodeWithHash(st, myContractTable, hash(code_), code_)

\* a setCodeAndABI that writes the ABI whatever the ABI table has
setCodeAndABIOverwrite(st, myContractTable, code_, abi) ==
    write(setCodeWithHash(st, myContractTable, hash(code_), code_),
          <<SYS_CONTRACT_ABI, hash(code_)>>, abi)

\* setCodeAndABI(code, abi): setCode, then the ABI under the code hash
\* unless the ABI table has that hash
setCodeAndABI(st, myContractTable, code_, abi) ==
    LET codeHash == hash(code_)
        st1 == setCodeWithHash(st, myContractTable, codeHash, code_)
        abiIt == read(st1, <<SYS_CONTRACT_ABI, codeHash>>)
    IN IF abiIt = <<>>
       THEN write(st1, <<SYS_CONTRACT_ABI, codeHash>>, abi)
       ELSE st1

\* a set() whose write bypasses the journal of the rollbackable storage
setUnjournaled(st, myContractTable, key, value) ==
    writeUnjournaled(st, <<myContractTable, key>>, value)

\* a set() that keeps the value a slot already has
setIfAbsent(st, myContractTable, key, value) ==
    IF existsOne(st, <<myContractTable, key>>) THEN st
    ELSE write(st, <<myContractTable, key>>, value)

\* set(key, value) on the Host's own table
set(st, myContractTable, key, value) ==
    write(st, <<myContractTable, key>>, value)

---------------------------------------------------------------------------
(* Inputs of the model *)

BlockNumbers == {10}
ContextIDs == {1}

AddrAA == [i \in 1..AddressSize |-> 170]     \* 0xAAAA...AA
Origin == [i \in 1..AddressSize |-> 187]     \* 0xBBBB...BB

K1 == Word(1)
K2 == Word(2)
ValA == Word(10)
ValB == Word(11)
Slots == {K1, K2}
Values == {ValA, ValB}

CodeB == <<96>>
Inputs == {CodeB}
Outputs == {<<>>, CodeB}
StatusCodes == {EVMC_SUCCESS, EVMC_REVERT}
LogData == {<<1>>}
AskedNumbers == {0, 10}

\* the addresses the read accessors are asked about
ReadAddresses == {AddrAA, Addr(2)}

\* what the backing storage may hold before the transaction: nothing, or
\* the code-hash field of a contract whose code the code table does not have
InitialContents ==
    {{}, {<<<<getTableNameID(AddrAA), ACCOUNT_CODE_HASH>>, hash(CodeB)>>}}

\* ABI texts, and what the backing storage may hold before a deployment:
\* a code-hash field of 0xAA..AA or none, the code table with or without
\* CodeB, the ABI table with or without an ABI for CodeB
ABI1 == <<1>>
ABI2 == <<2>>
ABIs == {ABI1, ABI2}
DeployContents ==
    {field \cup codes \cup abis :
        field \in {{}, {<<<<getTableNameID(AddrAA), ACCOUNT_CODE_HASH>>, hash(<<>>)>>},
                    {<<<<getTableNameID(AddrAA), ACCOUNT_CODE_HASH>>, hash(CodeB)>>}},
        codes \in {{}, {<<<<SYS_CODE_BINARY, hash(CodeB)>>, CodeB>>}},
        abis \in {{}, {<<<<SYS_CONTRACT_ABI, hash(CodeB)>>, ABI1>>}}}

\* the registry: m_precompiledManager.getPrecompiled(address) # nullptr
PrecompiledAddresses == {0, 1, MAX_PRECOMPILED_ADDRESS}
getPrecompiled(address) == address \in PrecompiledAddresses

TopMessages ==
    {Message("EVMC_CALL", Origin, AddrAA, AddrAA, <<>>)}
    \cup {Message("EVMC_CREATE", Origin, EMPTY_ADDRESS, EMPTY_ADDRESS, b) :
            b \in Inputs}
    \cup {Message("EVMC_CREATE2", Origin, EMPTY_ADDRESS, EMPTY_ADDRESS, b) :
            b \in Inputs}

\* the address of the contract a Host runs for
Self(h) ==
    IF h.message.kind = "EVMC_CREATE" THEN h.m_newContractAddress
    ELSE h.message.recipient

\* the messages the interpreter of Host h may hand to externalCall
NestedMessages(h) ==
    {Message("EVMC_CALL", Self(h), a, a, <<>>) :
        a \in {AddrAA, newContractAddress(tx.number, tx.contextID, 1),
               Addr(0), Addr(1), Addr(2), Addr(MAX_PRECOMPILED_ADDRESS)}}
    \cup {Message("EVMC_DELEGATECALL", h.message.sender, Self(h), AddrAA, <<>>)}
    \cup {Message("EVMC_CREATE", sender, EMPTY_ADDRESS, EMPTY_ADDRESS, b) :
            sender \in {EMPTY_ADDRESS, Self(h)}, b \in Inputs}
    \cup {Message("EVMC_CREATE2", Self(h), EMPTY_ADDRESS, EMPTY_ADDRESS, b) :
            b \in Inputs}

Top == stack[Len(stack)]

\* the nested messages of the newest Host (none while no Host is alive)
TopNestedMessages == IF stack = <<>> THEN {} ELSE NestedMessages(Top)

Executing == stack # <<>> /\ Top.pc = "executing"

\* addressing inputs: block numbers, context ids and counter values whose
\* decimal texts share digits, and CREATE messages that differ in sender
\* and input
AddressNumbers == {1, 11, 10}
AddressContextIDs == {1, 12, 2}
AddressSeqs == 0..(MaxSteps - 1)
Triples ==
    [number : AddressNumbers, contextID : AddressContextIDs, seq : AddressSeqs]
CreateMessages ==
    {Message("EVMC_CREATE", Origin, EMPTY_ADDRESS, EMPTY_ADDRESS, CodeB),
     Message("EVMC_CREATE", EMPTY_ADDRESS, EMPTY_ADDRESS, EMPTY_ADDRESS, <<>>)}

---------------------------------------------------------------------------
(* Operations *)

AddressInit == derived = <<>>

\* recipients whose last byte runs through the low byte values, ':' among
\* them, and the keys a Host reads and writes in its table
KeyRecipients == {Addr(n) : n \in 0..63}
HostKeys == Slots \cup {ACCOUNT_CODE_HASH}

\* a Host is constructed for a call to the recipient, and the state key of
\* one of its storage operations goes through the codec of the database
HostKeyRoundTrip(recipient, key) ==
    LET h == HostContext(Message("EVMC_CALL", Origin, recipient, recipient, <<>>),
                         tx.number, tx.contextID, seq)
    IN /\ stateKey' = <<h.m_myContractTable, key>>
       /\ dbKey' = encode(<<h.m_myContractTable, key>>)
       /\ decoded' = decode(encode(<<h.m_myContractTable, key>>))
       /\ UNCHANGED nonCodecVars

\* the names of the feature flags, in the order of the enum
featureKeys ==
    <<"bugfix_revert", "bugfix_statestorage_hash", "feature_dmc2serial",
      "feature_sharding", "feature_rpbft", "feature_paillier">>

\* Flag: the enum, by the position of its members
Flags == 1..Len(featureKeys)
FlagNames == {featureKeys[i] : i \in Flags}

\* the flag a name stands for: the member of the enum spelled like it
string2Flag(name) == CHOOSE flag \in Flags : featureKeys[flag] = name

\* get(Flag) and get(string_view); m_flags is the set of the flags set
getByFlag(m_flags, flag) == flag \in m_flags
getByName(m_flags, name) == getByFlag(m_flags, string2Flag(name))

\* set(Flag) and set(string_view)
setByFlag(m_flags, flag) == m_flags \cup {flag}
setByName(m_flags, name) == setByFlag(m_flags, string2Flag(name))

\* what the last operation on the Features object was; lastSet is a
\* history field: how the last set() addressed its flag
Answer(op, by, flag, name, value, lastSet) ==
    [op |-> op, by |-> by, flag |-> flag, name |-> name, value |-> value,
     lastSet |-> lastSet]

\* a freshly constructed Features object: no flag set
FeaturesInit ==
    /\ features = {}
    /\ got = Answer("none", "none", 0, "", FALSE, "none")

---------------------------------------------------------------------------
(* TxValidator: the checks a transaction passes before it enters the pool *)

GroupIds == {"group0", "group1"}
ChainIds == {"chain0", "chain1"}
m_groupId == "group0"
m_chainId == "chain0"
TransactionTypes == {"BCOSTransaction", "Web3Transaction"}

\* what the ledger nonce checker answers for a transaction: its nonce is
\* fresh and its block limit in range, or one of the two is not
LedgerAnswers == {"None", "NonceCheckFail", "BlockLimitCheckFail"}

\* a transaction as verify() sees it: its invalid flag, ids, type and nonce,
\* the ledger's answer for it, whether its signature verifies, and whether
\* it addresses a system contract
Transactions ==
    [invalid : BOOLEAN, groupId : GroupIds, chainId : ChainIds,
     type : TransactionTypes, nonce : 1..MaxNonce, ledger : LedgerAnswers,
     signed : BOOLEAN, system : BOOLEAN]

\* the outcome of verify(): the status returned, the nonces the txpool nonce
\* checker holds afterwards, and the transaction's system flag
Verdict(status, nonces, systemTx) ==
    [status |-> status, nonces |-> nonces, systemTx |-> systemTx]

\* m_txPoolNonceChecker->checkNonce(_tx, shouldUpdate): a nonce already held
\* fails; a fresh one passes and is recorded only when asked to
checkNonce(nonces, transaction, shouldUpdate) ==
    IF transaction.nonce \in nonces
    THEN [status |-> "NonceCheckFail", nonces |-> nonces]
    ELSE [status |-> "None",
          nonces |-> IF shouldUpdate THEN nonces \cup {transaction.nonce} ELSE nonces]

\* m_txPoolNonceChecker->insert(nonce)
insert(nonces, nonce) == nonces \cup {nonce}

checkTxpoolNonce(nonces, transaction) == checkNonce(nonces, transaction, FALSE)

\* m_ledgerNonceChecker->checkNonce(_tx): the ledger's answer
ledgerCheckNonce(transaction) == transaction.ledger

isSystemTransaction(transaction) == transaction.system

\* the status, and the transaction's system flag afterwards
checkLedgerNonceAndBlockLimit(transaction) ==
    LET status == ledgerCheckNonce(transaction) IN
    IF status # "None"
    THEN [status |-> status, systemTx |-> FALSE]
    ELSE [status |-> "None", systemTx |-> isSystemTransaction(transaction)]

\* a verify() that records the nonce before it checks the signature
verifyInsertsBeforeSignature(nonces, transaction) ==
    LET isBCOS == transaction.type = "BCOSTransaction"
        pool == checkTxpoolNonce(nonces, transaction)
        ledger == checkLedgerNonceAndBlockLimit(transaction)
    IN  IF transaction.invalid
        THEN Verdict("InvalidSignature", nonces, FALSE)
        ELSE IF transaction.groupId # m_groupId /\ isBCOS
        THEN Verdict("InvalidGroupId", nonces, FALSE)
        ELSE IF transaction.chainId # m_chainId /\ isBCOS
        THEN Verdict("InvalidChainId", nonces, FALSE)
        ELSE IF pool.status # "None"
        THEN Verdict(pool.status, pool.nonces, FALSE)
        ELSE IF ledger.status # "None"
        THEN Verdict(ledger.status, pool.nonces, ledger.systemTx)
        ELSE IF ~transaction.signed
        THEN Verdict("InvalidSignature", insert(pool.nonces, transaction.nonce),
                     ledger.systemTx)
        ELSE Verdict("None", insert(pool.nonces, transaction.nonce),
                     ledger.systemTx \/ isSystemTransaction(transaction))

\* TxValidator::verify: the checks in order, each returning its error status
\* at once; the nonce is inserted after the last of them has passed
verify(nonces, transaction) ==
    LET isBCOS == transaction.type = "BCOSTransaction"
        pool == checkTxpoolNonce(nonces, transaction)
        ledger == checkLedgerNonceAndBlockLimit(transaction)
    IN  IF transaction.invalid
        THEN Verdict("InvalidSignature", nonces, FALSE)
        ELSE IF transaction.groupId # m_groupId /\ isBCOS
        THEN Verdict("InvalidGroupId", nonces, FALSE)
        ELSE IF transaction.chainId # m_chainId /\ isBCOS
        THEN Verdict("InvalidChainId", nonces, FALSE)
        ELSE IF pool.status # "None"
        THEN Verdict(pool.status, pool.nonces, FALSE)
        ELSE IF ledger.status # "None"
        THEN Verdict(ledger.status, pool.nonces, ledger.systemTx)
        ELSE IF ~transaction.signed
        THEN Verdict("InvalidSignature", pool.nonces, ledger.systemTx)
        ELSE Verdict("None", insert(pool.nonces, transaction.nonce),
                     ledger.systemTx \/ isSystemTransaction(transaction))

\* a fresh validator: its txpool nonce checker holds no nonce, and no
\* transaction has been verified
ValidatorInit ==
    /\ txPoolNonces = {}
    /\ verified = [status |-> "unverified", nonce |-> 0, systemTx |-> FALSE]

\* validator->verify(_tx)
Verify(transaction) ==
    LET verdict == verify(txPoolNonces, transaction) IN
    /\ txPoolNonces' = verdict.nonces
    /\ verified' = [status |-> verdict.status, nonce |-> transaction.nonce,
                    systemTx |-> verdict.systemTx, tx |-> transaction]
    /\ UNCHANGED <<hostVars, codecVars, addressVars, pairVars, other, featureVars>>

\* no second execution, a fresh Features object and a fresh validator
RestInit ==
    /\ PairInit
    /\ other = <<>>
    /\ FeaturesInit
    /\ ValidatorInit

\* features.set(flag)
SetByFlag(flag) ==
    /\ features' = setByFlag(features, flag)
    /\ got' = Answer("set", "flag", flag, "", TRUE, "flag")
    /\ UNCHANGED <<hostVars, codecVars, addressVars, pairVars, other, validatorVars>>

\* a set("name") that sets the first member of the enum whatever the name
SetByNameFirst(name) ==
    /\ features' = setByFlag(features, 1)
    /\ got' = Answer("set", "name", 0, name, TRUE, "name")
    /\ UNCHANGED <<hostVars, codecVars, addressVars, pairVars, other, validatorVars>>

\* features.set("name")
SetByName(name) ==
    /\ features' = setByName(features, name)
    /\ got' = Answer("set", "name", 0, name, TRUE, "name")
    /\ UNCHANGED <<hostVars, codecVars, addressVars, pairVars, other, validatorVars>>

\* features.get(flag)
GetByFlag(flag) ==
    /\ got' = Answer("get", "flag", flag, "", getByFlag(features, flag),
                     got.lastSet)
    /\ UNCHANGED <<hostVars, codecVars, addressVars, pairVars, other, features,
                   validatorVars>>

\* features.get("name")
GetByName(name) ==
    /\ got' = Answer("get", "name", 0, name, getByName(features, name),
                     got.lastSet)
    /\ UNCHANGED <<hostVars, codecVars, addressVars, pairVars, other, features,
                   validatorVars>>

\* the address the constructor derives for a CREATE message at a triple
Derive(t, message) ==
    [number |-> t.number, contextID |-> t.contextID, seq |-> t.seq,
     address |-> HostContext(message, t.number, t.contextID, t.seq)
                    .m_newContractAddress]

\* two CREATE Hosts are constructed, each for its own block, context id,
\* counter value and message
ConstructPair(a, ma, b, mb) ==
    /\ derived = <<>>
    /\ derived' = <<Derive(a, ma), Derive(b, mb)>>
    /\ UNCHANGED <<hostVars, codecVars, pairVars, other, featureVars, validatorVars>>

\* the Host part of the initial state, but for the storage
HostStart ==
    /\ stack = <<>>
    /\ seq = 0
    /\ tx = [number |-> 10, contextID |-> 1]
    /\ fatal = "none"
    /\ steps = 0
    /\ started = FALSE
    /\ event = NoEvent
    /\ ret = NoRet

\* the initial state of the read accessors' specification: any initial
\* content of the storage
ReadInit ==
    /\ store \in {View(kv) : kv \in InitialContents}
    /\ HostStart
    /\ CodecInit
    /\ AddressInit
    /\ RestInit

\* the initial state of the deployment specification: any of the contents
DeployInit ==
    /\ store \in {View(kv) : kv \in DeployContents}
    /\ HostStart
    /\ CodecInit
    /\ AddressInit
    /\ RestInit

HostInit ==
    /\ store = [kv |-> {}, records |-> <<>>]
    /\ stack = <<>>
    /\ seq = 0
    /\ tx = [number |-> 10, contextID |-> 1]
    /\ fatal = "none"
    /\ steps = 0
    /\ started = FALSE
    /\ event = NoEvent
    /\ ret = NoRet

Init == HostInit /\ CodecInit /\ AddressInit /\ RestInit

\* The top-level caller starts the transaction: a rollbackable view over
\* the storage, a counter at 0, and the top-level Host constructed for the
\* message (the constructor throws for CREATE2).
NewTransaction(message, number, contextID) ==
    /\ ~started
    /\ LET thrown == getMyContractTable(number, contextID, 0, message).thrown IN
       /\ fatal' = thrown
       /\ stack' = IF thrown = "none"
                   THEN <<HostContext(message, number, contextID, 0)>>
                   ELSE unwind(<<>>)
       /\ event' = IF thrown = "none" THEN NoEvent ELSE Thrown(1)
    /\ store' = [kv |-> store.kv, records |-> <<>>]
    /\ seq' = 0
    /\ tx' = [number |-> number, contextID |-> contextID]
    /\ steps' = 0
    /\ started' = TRUE
    /\ ret' = NoRet
    /\ UNCHANGED nonHostVars

\* The caller wires pre-deployed code into the Host it constructed:
\* setCode(code) before execute().
SetCode(code_) ==
    /\ Len(stack) = 1
    /\ Top.pc = "created"
    /\ Top.message.kind = "EVMC_CALL"
    /\ store.records = <<>>
    /\ store' = setCode(store, Top.m_myContractTable, code_)
    /\ event' = NoEvent
    /\ ret' = NoRet
    /\ UNCHANGED <<stack, seq, tx, fatal, steps, started>>
    /\ UNCHANGED nonHostVars

\* The caller deploys code with its ABI through the Host it constructed:
\* setCodeAndABI(code, abi) before execute().  Nothing is handed back; ret
\* keeps the call as history.
SetCodeAndABI(code_, abi) ==
    /\ Len(stack) = 1
    /\ Top.pc = "created"
    /\ Top.message.kind = "EVMC_CALL"
    /\ store.records = <<>>
    /\ store' = setCodeAndABI(store, Top.m_myContractTable, code_, abi)
    /\ event' = NoEvent
    /\ ret' = [op |-> "setCodeAndABI", code |-> code_, abi |-> abi]
    /\ UNCHANGED <<stack, seq, tx, fatal, steps, started>>
    /\ UNCHANGED nonHostVars

\* a call() that only rejects absent code and runs zero-length code
callThrowsAbsentOnly(st, message) ==
    code(st, message.code_address) = <<>>

\* call() up to the interpreter's start: does the code lookup throw?
callThrows(st, message) ==
    LET codeEntry == code(st, message.code_address) IN
    codeEntry = <<>> \/ Len(codeEntry[1]) = 0

\* a Host that enters Executing with the savepoint of the start of the
\* journal instead of one of its own
EnterAtStart(h, st) ==
    [h EXCEPT !.pc = "executing", !.savepoint = 0, !.snap = st.kv]

\* the Host enters Executing: the savepoint is captured and the interpreter
\* starts
Enter(h, st) ==
    [h EXCEPT !.pc = "executing", !.savepoint = current(st), !.snap = st.kv]

\* execute() of the newest Host, up to the point where the interpreter
\* runs: create() takes the savepoint; call() looks the code up, throws
\* NotFoundCodeError (which unwinds every Host of the tree) when there is
\* none, and takes the savepoint otherwise.
Execute ==
    /\ stack # <<>>
    /\ Top.pc = "created"
    /\ IF Top.message.kind \in {"EVMC_CREATE", "EVMC_CREATE2"}
          \/ ~callThrows(store, Top.message)
       THEN /\ stack' = [stack EXCEPT ![Len(stack)] = Enter(Top, store)]
            /\ event' = [op |-> "current", savepoint |-> current(store),
                         host |-> Len(stack)]
            /\ UNCHANGED fatal
       ELSE /\ stack' = unwind(stack)
            /\ fatal' = "NotFoundCodeError"
            /\ event' = Thrown(Len(stack))
    /\ ret' = NoRet
    /\ UNCHANGED <<store, seq, tx, steps, started>>
    /\ UNCHANGED nonHostVars

\* a set() issued by the oldest Host of the tree while its descendants run
SetByAncestor(key, value) ==
    /\ Executing
    /\ steps < MaxSteps
    /\ store' = set(store, stack[1].m_myContractTable, key, value)
    /\ stack' = [stack EXCEPT ![1] =
                    [stack[1] EXCEPT
                        !.lastSet = <<<<<<stack[1].m_myContractTable, key>>, value>>>>,
                        !.nestedFailed = FALSE]]
    /\ steps' = steps + 1
    /\ event' = NoEvent
    /\ ret' = NoRet
    /\ UNCHANGED <<seq, tx, fatal, started>>
    /\ UNCHANGED nonHostVars

\* The interpreter stores a slot: set(key, value).
Set(key, value) ==
    /\ Executing
    /\ steps < MaxSteps
    /\ store' = set(store, Top.m_myContractTable, key, value)
    /\ stack' = [stack EXCEPT ![Len(stack)] =
                    [Top EXCEPT !.lastSet = <<<<<<Top.m_myContractTable, key>>, value>>>>,
                                !.nestedFailed = FALSE]]
    /\ steps' = steps + 1
    /\ event' = NoEvent
    /\ ret' = NoRet
    /\ UNCHANGED <<seq, tx, fatal, started>>
    /\ UNCHANGED nonHostVars

\* a log entry: no address, the data; host and at are history fields, the
\* depth of the Host whose log() made the entry and the number of the
\* interpreter callback that made it
LogEntry(data, host, at) ==
    [address |-> <<>>, data |-> data, host |-> host, at |-> at]

\* The interpreter emits a log: log(topics, data).
Log(data) ==
    /\ Executing
    /\ steps < MaxSteps
    /\ stack' = [stack EXCEPT ![Len(stack)] =
                    [Top EXCEPT !.m_logs =
                        Append(Top.m_logs, LogEntry(data, Len(stack), steps + 1))]]
    /\ steps' = steps + 1
    /\ event' = NoEvent
    /\ ret' = NoRet
    /\ UNCHANGED <<store, seq, tx, fatal, started>>
    /\ UNCHANGED nonHostVars

\* a range test that lets the ceiling itself through to the registry
isPrecompiledInclusive(message) ==
    LET address == fromBigEndian(message.code_address) IN
    /\ address > 0
    /\ address <= MAX_PRECOMPILED_ADDRESS
    /\ getPrecompiled(address)

\* externalCall's test for the precompiled short-circuit
isPrecompiled(message) ==
    LET address == fromBigEndian(message.code_address) IN
    /\ address > 0
    /\ address < MAX_PRECOMPILED_ADDRESS
    /\ getPrecompiled(address)

\* what a precompiled handler may do to the storage it shares with its
\* caller: nothing, or one write to its own table
HandlerWrites(message) ==
    {<<>>, <<<<<<getTableNameID(message.recipient), K1>>, ValB>>>>}

\* the results precompiled->call(message) may produce
HandlerResults(message) ==
    {VmResult(EVMC_SUCCESS, <<>>), VmResult(EVMC_REVERT, message.input_data)}

\* externalCall's co_return of what precompiled->call(message) produced;
\* handler is a history field: the handler's own result
Served(message, result) ==
    [op |-> "precompiled", message |-> message, handler |-> result,
     value |-> result, logs |-> <<>>]

\* a precompiled call that also counts as a nested dispatch
PrecompiledCallCounted(message) ==
    /\ Executing
    /\ steps < MaxSteps
    /\ message \in TopNestedMessages
    /\ isPrecompiled(message)
    /\ \E w \in HandlerWrites(message) :
          IF w = <<>>
          THEN UNCHANGED <<store, stack>>
          ELSE /\ store' = write(store, w[1][1], w[1][2])
               /\ stack' = [stack EXCEPT ![Len(stack)] =
                               [Top EXCEPT !.lastSet = <<>>,
                                           !.nestedFailed = FALSE]]
    /\ \E r \in HandlerResults(message) : ret' = Served(message, r)
    /\ steps' = steps + 1
    /\ seq' = seq + 1
    /\ event' = NoEvent
    /\ UNCHANGED <<tx, fatal, started>>
    /\ UNCHANGED nonHostVars

\* externalCall(message), served by a precompiled handler: the handler's
\* result goes straight back to the interpreter.
PrecompiledCall(message) ==
    /\ Executing
    /\ steps < MaxSteps
    /\ message \in TopNestedMessages
    /\ isPrecompiled(message)
    /\ \E w \in HandlerWrites(message) :
          IF w = <<>>
          THEN UNCHANGED <<store, stack>>
          ELSE /\ store' = write(store, w[1][1], w[1][2])
               /\ stack' = [stack EXCEPT ![Len(stack)] =
                               [Top EXCEPT !.lastSet = <<>>,
                                           !.nestedFailed = FALSE]]
    /\ \E r \in HandlerResults(message) : ret' = Served(message, r)
    /\ steps' = steps + 1
    /\ event' = NoEvent
    /\ UNCHANGED <<seq, tx, fatal, started>>
    /\ UNCHANGED nonHostVars

\* the message the child Host is constructed with: a CREATE without sender
\* gets m_newContractAddress of the dispatching Host
messageWithSender(h, message) ==
    IF message.kind = "EVMC_CREATE" /\ message.sender = EMPTY_ADDRESS
    THEN [message EXCEPT !.sender = h.m_newContractAddress]
    ELSE message

\* an externalCall that constructs the child Host first and increments the
\* counter afterwards
ExternalCallSeqAfter(message) ==
    /\ Executing
    /\ steps < MaxSteps
    /\ Len(stack) < MaxDepth
    /\ message \in TopNestedMessages
    /\ ~isPrecompiled(message)
    /\ seq' = seq + 1
    /\ LET m == messageWithSender(Top, message)
           thrown == getMyContractTable(tx.number, tx.contextID, seq, m).thrown
       IN /\ fatal' = thrown
          /\ stack' = IF thrown = "none"
                      THEN Append(stack, HostContext(m, tx.number, tx.contextID, seq))
                      ELSE unwind(stack)
          /\ event' = IF thrown = "none" THEN NoEvent ELSE Thrown(Len(stack) + 1)
    /\ steps' = steps + 1
    /\ ret' = NoRet
    /\ UNCHANGED <<store, tx, started>>
    /\ UNCHANGED nonHostVars

\* externalCall(message), dispatched normally: the counter is incremented
\* and the child Host constructed over the same storage and counter (an
\* exception of its constructor unwinds the tree).
ExternalCall(message) ==
    /\ Executing
    /\ steps < MaxSteps
    /\ Len(stack) < MaxDepth
    /\ message \in TopNestedMessages
    /\ ~isPrecompiled(message)
    /\ seq' = seq + 1
    /\ LET m == messageWithSender(Top, message)
           thrown == getMyContractTable(tx.number, tx.contextID, seq + 1, m).thrown
       IN /\ fatal' = thrown
          /\ stack' = IF thrown = "none"
                      THEN Append(stack, HostContext(m, tx.number, tx.contextID, seq + 1))
                      ELSE unwind(stack)
          /\ event' = IF thrown = "none" THEN NoEvent ELSE Thrown(Len(stack) + 1)
    /\ steps' = steps + 1
    /\ ret' = NoRet
    /\ UNCHANGED <<store, tx, started>>
    /\ UNCHANGED nonHostVars

\* a create() that attaches the derived address to a failure result too
createAlwaysAttach(h, st, vmResult) ==
    IF vmResult.status_code # 0
    THEN [store |-> rollback(st, h.savepoint),
          result |-> [vmResult EXCEPT !.create_address = h.m_newContractAddress],
          rolledBack |-> <<h.savepoint>>]
    ELSE [store |-> setCode(st, h.m_myContractTable, vmResult.output),
          result |-> [vmResult EXCEPT !.create_address = h.m_newContractAddress],
          rolledBack |-> <<>>]

\* a create() that stores the creation input instead of the output
createStoresInput(h, st, vmResult) ==
    IF vmResult.status_code # 0
    THEN [store |-> rollback(st, h.savepoint),
          result |-> vmResult,
          rolledBack |-> <<h.savepoint>>]
    ELSE [store |-> setCode(st, h.m_myContractTable, h.message.input_data),
          result |-> [vmResult EXCEPT !.create_address = h.m_newContractAddress],
          rolledBack |-> <<>>]

\* a create() that stores nothing when the output is empty
createSkipsEmpty(h, st, vmResult) ==
    IF vmResult.status_code # 0
    THEN [store |-> rollback(st, h.savepoint),
          result |-> vmResult,
          rolledBack |-> <<h.savepoint>>]
    ELSE [store |-> IF vmResult.output = <<>> THEN st
                    ELSE setCode(st, h.m_myContractTable, vmResult.output),
          result |-> [vmResult EXCEPT !.create_address = h.m_newContractAddress],
          rolledBack |-> <<>>]

\* create() after the interpreter returned: rollback to the savepoint on a
\* non-zero status, else store the output as code and attach the address
create(h, st, vmResult) ==
    IF vmResult.status_code # 0
    THEN [store |-> rollback(st, h.savepoint),
          result |-> vmResult,
          rolledBack |-> <<h.savepoint>>]
    ELSE [store |-> setCode(st, h.m_myContractTable, vmResult.output),
          result |-> [vmResult EXCEPT !.create_address = h.m_newContractAddress],
          rolledBack |-> <<>>]

\* a call() that returns a failure without rolling back
callNoRollback(h, st, vmResult) ==
    [store |-> st, result |-> vmResult, rolledBack |-> <<>>]

\* a call() that rolls back to the start of the journal instead of to its
\* own savepoint
callRollbackAll(h, st, vmResult) ==
    IF vmResult.status_code # 0
    THEN [store |-> rollback(st, 0), result |-> vmResult, rolledBack |-> <<0>>]
    ELSE [store |-> st, result |-> vmResult, rolledBack |-> <<>>]

\* a call() that rolls back whatever the interpreter's status is
callRollbackAlways(h, st, vmResult) ==
    [store |-> rollback(st, h.savepoint),
     result |-> vmResult,
     rolledBack |-> <<h.savepoint>>]

\* call() after the interpreter returned: rollback on a non-zero status
call(h, st, vmResult) ==
    IF vmResult.status_code # 0
    THEN [store |-> rollback(st, h.savepoint),
          result |-> vmResult,
          rolledBack |-> <<h.savepoint>>]
    ELSE [store |-> st, result |-> vmResult, rolledBack |-> <<>>]

\* an execute() that empties the Host's log list when it rolls back
ReturnClearsLogs(status_code, output) ==
    /\ Executing
    /\ LET vm == VmResult(status_code, output)
           out == IF Top.message.kind \in {"EVMC_CREATE", "EVMC_CREATE2"}
                  THEN create(Top, store, vm)
                  ELSE call(Top, store, vm)
       IN /\ store' = out.store
          /\ stack' = [stack EXCEPT ![Len(stack)] =
                          [Top EXCEPT !.pc = "returned",
                                      !.vmResult = vm,
                                      !.result = out.result,
                                      !.m_logs = IF out.rolledBack # <<>>
                                                 THEN <<>> ELSE Top.m_logs]]
          /\ event' = IF out.rolledBack # <<>>
                      THEN [op |-> "rollback", savepoint |-> out.rolledBack[1],
                            host |-> Len(stack)]
                      ELSE NoEvent
    /\ ret' = IF Len(stack) = 1
              THEN [op |-> "execute", value |-> stack'[1].result]
              ELSE NoRet
    /\ UNCHANGED <<seq, tx, fatal, steps, started>>
    /\ UNCHANGED nonHostVars

\* The interpreter of the newest Host returns; create() or call() finishes
\* and execute() returns the result.
Return(status_code, output) ==
    /\ Executing
    /\ LET vm == VmResult(status_code, output)
           out == IF Top.message.kind \in {"EVMC_CREATE", "EVMC_CREATE2"}
                  THEN create(Top, store, vm)
                  ELSE call(Top, store, vm)
       IN /\ store' = out.store
          /\ stack' = [stack EXCEPT ![Len(stack)] =
                          [Top EXCEPT !.pc = "returned",
                                      !.vmResult = vm,
                                      !.result = out.result]]
          /\ event' = IF out.rolledBack # <<>>
                      THEN [op |-> "rollback", savepoint |-> out.rolledBack[1],
                            host |-> Len(stack)]
                      ELSE NoEvent
    /\ ret' = IF Len(stack) = 1
              THEN [op |-> "execute", value |-> stack'[1].result]
              ELSE NoRet
    /\ UNCHANGED <<seq, tx, fatal, steps, started>>
    /\ UNCHANGED nonHostVars

\* a merge that puts the child's logs in front of the parent's
mergeLogsPrepended(m_logs, result, logs) ==
    IF result.status_code = EVMC_SUCCESS /\ logs # <<>>
    THEN logs \o m_logs
    ELSE m_logs

\* a merge that moves the child's logs into the parent's whatever the status
mergeLogsAlways(m_logs, result, logs) == m_logs \o logs

\* the parent's m_logs after the child returned result with the logs logs
mergeLogs(m_logs, result, logs) ==
    IF result.status_code = EVMC_SUCCESS /\ logs # <<>>
    THEN m_logs \o logs
    ELSE m_logs

\* an externalCall that gives the counter back when the child failed
ExternalCallReturnRestoresSeq ==
    /\ Len(stack) >= 2
    /\ Top.pc = "returned"
    /\ LET child == Top
           parent == stack[Len(stack) - 1]
           ok == child.result.status_code = EVMC_SUCCESS
           after ==
             [parent EXCEPT
                !.m_logs = mergeLogs(parent.m_logs, child.result, child.m_logs),
                !.lastSet = IF ok THEN <<>> ELSE parent.lastSet,
                !.nestedFailed =
                    IF ok THEN FALSE
                    ELSE parent.nestedFailed
                         \/ (child.lastSet # <<>> /\ parent.lastSet # <<>>)]
       IN /\ stack' = Append(SubSeq(stack, 1, Len(stack) - 2), after)
          /\ ret' = Returns(child.message, child.result, child.m_logs)
          /\ seq' = IF ok THEN seq ELSE child.seq0 - 1
    /\ event' = NoEvent
    /\ UNCHANGED <<store, tx, fatal, steps, started>>
    /\ UNCHANGED nonHostVars

\* externalCall after the child's execute() returned: the child's logs are
\* moved into the parent's on success, and the parent's interpreter goes on.
ExternalCallReturn ==
    /\ Len(stack) >= 2
    /\ Top.pc = "returned"
    /\ LET child == Top
           parent == stack[Len(stack) - 1]
           ok == child.result.status_code = EVMC_SUCCESS
           after ==
             [parent EXCEPT
                !.m_logs = mergeLogs(parent.m_logs, child.result, child.m_logs),
                !.lastSet = IF ok THEN <<>> ELSE parent.lastSet,
                !.nestedFailed =
                    IF ok THEN FALSE
                    ELSE parent.nestedFailed
                         \/ (child.lastSet # <<>> /\ parent.lastSet # <<>>)]
       IN /\ stack' = Append(SubSeq(stack, 1, Len(stack) - 2), after)
          /\ ret' = Returns(child.message, child.result, child.m_logs)
    /\ event' = NoEvent
    /\ UNCHANGED <<store, seq, tx, fatal, steps, started>>
    /\ UNCHANGED nonHostVars

\* a read accessor of the newest Host handed value back: nothing but ret
\* changes
Read(answer) ==
    /\ stack # <<>>
    /\ ret' = answer
    /\ event' = NoEvent
    /\ UNCHANGED <<store, stack, seq, tx, fatal, steps, started>>
    /\ UNCHANGED nonHostVars

\* get(key)
Get(key) ==
    Read([op |-> "get", table |-> Top.m_myContractTable, key |-> key,
          value |-> get(store, Top.m_myContractTable, key)])

\* code(address)
Code(address) ==
    Read([op |-> "code", address |-> address, value |-> code(store, address)])

\* codeSizeAt(address)
CodeSizeAt(address) ==
    Read([op |-> "codeSizeAt", address |-> address,
          value |-> codeSizeAt(store, address)])

\* codeHashAt(address)
CodeHashAt(address) ==
    Read([op |-> "codeHashAt", address |-> address,
          value |-> codeHashAt(store, address)])

\* exists(address)
Exists(address) ==
    Read([op |-> "exists", address |-> address,
          value |-> exists(store, address)])

\* a blockHash() that returns the zero hash after all
blockHashZero(number) == [thrown |-> "none", value |-> Zeros(HashSize)]

\* blockHash(number): throws before anything is returned
blockHash(number) == [thrown |-> "Unsupported method!", value |-> <<>>]

\* The interpreter asks for a block hash: blockHash(number).  The exception
\* unwinds every Host of the tree.
BlockHash(number) ==
    /\ Executing
    /\ steps < MaxSteps
    /\ LET out == blockHash(number) IN
       IF out.thrown = "none"
       THEN /\ ret' = [op |-> "blockHash", value |-> out.value]
            /\ event' = NoEvent
            /\ UNCHANGED <<stack, fatal>>
       ELSE /\ ret' = NoRet
            /\ event' = Thrown(Len(stack))
            /\ stack' = unwind(stack)
            /\ fatal' = out.thrown
    /\ steps' = steps + 1
    /\ UNCHANGED <<store, seq, tx, started>>
    /\ UNCHANGED nonHostVars

\* what one top-level execution owns: the storage view and the counter its
\* caller handed to the constructor, its Hosts, and what it handed back
Execution ==
    [store |-> store, stack |-> stack, seq |-> seq, tx |-> tx, fatal |-> fatal,
     steps |-> steps, started |-> started, event |-> event, ret |-> ret]

\* a second execution that has not started: its own empty view, its own
\* counter
Unstarted ==
    [store |-> [kv |-> {}, records |-> <<>>], stack |-> <<>>, seq |-> 0,
     tx |-> [number |-> 10, contextID |-> 1], fatal |-> "none", steps |-> 0,
     started |-> FALSE, event |-> NoEvent, ret |-> NoRet]

PairStart ==
    /\ HostInit
    /\ CodecInit
    /\ AddressInit
    /\ PairInit
    /\ other = Unstarted
    /\ FeaturesInit
    /\ ValidatorInit

\* a scheduler that hands the resumed execution the counter of the
\* suspended one
SwitchSharedSeq ==
    /\ store' = other.store
    /\ stack' = other.stack
    /\ seq' = seq
    /\ tx' = other.tx
    /\ fatal' = other.fatal
    /\ steps' = other.steps
    /\ started' = other.started
    /\ event' = other.event
    /\ ret' = other.ret
    /\ other' = Execution
    /\ UNCHANGED <<codecVars, addressVars, pairVars, featureVars, validatorVars>>

\* The surrounding system suspends the running execution at a storage
\* operation and resumes the other one: each Host reaches its storage, its
\* counter and its message only through the references it was constructed
\* with, so the resumed execution finds exactly what it left.
Switch ==
    /\ store' = other.store
    /\ stack' = other.stack
    /\ seq' = other.seq
    /\ tx' = other.tx
    /\ fatal' = other.fatal
    /\ steps' = other.steps
    /\ started' = other.started
    /\ event' = other.event
    /\ ret' = other.ret
    /\ other' = Execution
    /\ UNCHANGED <<codecVars, addressVars, pairVars, featureVars, validatorVars>>

\* the steps of one execution in the two-execution specification: a call
\* or a creation, slot writes, a log, a nested creation, returns
PairMessages ==
    {Message("EVMC_CALL", Origin, AddrAA, AddrAA, <<>>)}
PairNested(h) ==
    {Message("EVMC_CREATE", Self(h), EMPTY_ADDRESS, EMPTY_ADDRESS, CodeB)}

SoloNext ==
    \/ \E m \in PairMessages, n \in BlockNumbers, c \in ContextIDs :
          NewTransaction(m, n, c)
    \/ SetCode(CodeB)
    \/ Execute
    \/ steps < PairSteps /\ Set(K1, ValA)
    \/ steps < PairSteps /\ \E d \in LogData : Log(d)
    \/ /\ steps < PairSteps
       /\ \E m \in (IF stack = <<>> THEN {} ELSE PairNested(Top)) : ExternalCall(m)
    \/ \E s \in StatusCodes : Return(s, CodeB)
    \/ ExternalCallReturn

Next ==
    \/ \E m \in TopMessages, n \in BlockNumbers, c \in ContextIDs :
          NewTransaction(m, n, c)
    \/ \E c \in Outputs : SetCode(c)
    \/ Execute
    \/ \E k \in Slots, v \in Values : Set(k, v)
    \/ \E d \in LogData : Log(d)
    \/ \E m \in TopNestedMessages : PrecompiledCall(m)
    \/ \E m \in TopNestedMessages : ExternalCall(m)
    \/ \E s \in StatusCodes, o \in Outputs : Return(s, o)
    \/ ExternalCallReturn
    \/ \E n \in AskedNumbers : BlockHash(n)

Spec == Init /\ [][Next]_vars

CodecNext ==
    \/ \E t \in ByteStrings(MaxLen - 1), k \in ByteStrings(MaxLen - 1) :
          EncodeDecode(t, k)
    \/ \E b \in ByteStrings(MaxLen) : DecodeRaw(b)

SpecCodec == Init /\ [][CodecNext]_vars

AddressNext ==
    \E a \in Triples, ma \in CreateMessages, b \in Triples, mb \in CreateMessages :
        ConstructPair(a, ma, b, mb)

SpecAddress == Init /\ [][AddressNext]_vars

HostKeyNext ==
    \E r \in KeyRecipients, k \in HostKeys : HostKeyRoundTrip(r, k)

SpecHostKey == Init /\ [][HostKeyNext]_vars

EncodeNext ==
    \E t1 \in PairStrings(MaxLen - 1), k1 \in PairStrings(MaxLen - 1),
       t2 \in PairStrings(MaxLen - 1), k2 \in PairStrings(MaxLen - 1) :
        EncodePair(t1, k1, t2, k2)

SpecEncode == Init /\ [][EncodeNext]_vars

\* a top-level Host, its run without nested calls, and the read accessors
ReadNext ==
    \/ \E m \in TopMessages, n \in BlockNumbers, c \in ContextIDs :
          NewTransaction(m, n, c)
    \/ \E c \in Outputs : SetCode(c)
    \/ Execute
    \/ \E k \in Slots, v \in Values : Set(k, v)
    \/ \E s \in StatusCodes, o \in Outputs : Return(s, o)
    \/ \E k \in Slots : Get(k)
    \/ \E a \in ReadAddresses : Code(a)
    \/ \E a \in ReadAddresses : CodeSizeAt(a)
    \/ \E a \in ReadAddresses : CodeHashAt(a)
    \/ \E a \in ReadAddresses : Exists(a)

SpecRead == ReadInit /\ [][ReadNext]_vars

\* code and ABI deployed through a top-level Host, creations that store
\* their output, and the reads of what was stored
DeployNext ==
    \/ \E m \in TopMessages, n \in BlockNumbers, c \in ContextIDs :
          NewTransaction(m, n, c)
    \/ \E c \in Outputs : SetCode(c)
    \/ \E c \in Outputs, abi \in ABIs : SetCodeAndABI(c, abi)
    \/ Execute
    \/ \E s \in StatusCodes, o \in Outputs : Return(s, o)
    \/ \E a \in ReadAddresses : Code(a)
    \/ \E a \in ReadAddresses : CodeHashAt(a)

SpecDeploy == DeployInit /\ [][DeployNext]_vars

\* two top-level executions, each with its own view and counter, interleaved
\* at will
PairNext ==
    \/ SoloNext
    \/ Switch

SpecPair == PairStart /\ [][PairNext]_vars

\* one Features object, set and asked by flag and by name
FeaturesNext ==
    \/ \E flag \in Flags : SetByFlag(flag)
    \/ \E name \in FlagNames : SetByName(name)
    \/ \E flag \in Flags : GetByFlag(flag)
    \/ \E name \in FlagNames : GetByName(name)

SpecFeatures == Init /\ [][FeaturesNext]_vars

\* one validator, handed transactions of every kind
ValidatorNext ==
    \E transaction \in Transactions : Verify(transaction)

SpecValidator == Init /\ [][ValidatorNext]_vars

---------------------------------------------------------------------------
(* Properties *)

\* the Host whose execute() has just returned, if any
Returned == stack # <<>> /\ Top.pc = "returned"

Failed(h) == h.vmResult.status_code # 0

IsCreate(h) == h.message.kind \in {"EVMC_CREATE", "EVMC_CREATE2"}

\* the entries of the code table in a storage content
CodeTable(kv) == {r \in kv : r[1][1] = SYS_CODE_BINARY}

\* C1: when execute() of a Host whose interpreter reported a non-success
\* status returns, the storage content is exactly the content it had when
\* that Host took its savepoint.
FailedRunLeavesStorage ==
    (Returned /\ Failed(Top)) => store.kv = Top.snap

\* C1 witness: a failed Host has returned and a slot it wrote during the run
\* no longer holds the written value.
FailedRunWitness ==
    /\ Returned
    /\ Failed(Top)
    /\ Top.lastSet # <<>>
    /\ read(store, Top.lastSet[1][1]) # <<Top.lastSet[1][2]>>

\* C2: when a nested call that failed has returned, the storage is what it
\* was when the nested call began, the slot the parent wrote last before
\* dispatching still reads the written value and the parent is still
\* executing; and a Host that finishes with success leaves its latest
\* write in storage.
NestedRollbackIndependence ==
    /\ (Len(stack) >= 2 /\ Returned /\ Failed(Top)) =>
          LET parent == stack[Len(stack) - 1] IN
          /\ store.kv = Top.snap
          /\ parent.pc = "executing"
          /\ parent.lastSet # <<>> =>
                read(store, parent.lastSet[1][1]) = <<parent.lastSet[1][2]>>
    /\ \A i \in 1..Len(stack) :
          (stack[i].pc = "executing" /\ stack[i].nestedFailed) =>
             read(store, stack[i].lastSet[1][1]) = <<stack[i].lastSet[1][2]>>
    /\ (Returned /\ ~Failed(Top) /\ Top.lastSet # <<>>) =>
          read(store, Top.lastSet[1][1]) = <<Top.lastSet[1][2]>>

\* C2 witness: a Host wrote K1, then a nested call wrote a slot and failed,
\* and the Host has finished with success with K1 still in storage.
NestedRollbackWitness ==
    /\ Returned
    /\ ~Failed(Top)
    /\ Top.nestedFailed
    /\ Top.lastSet # <<>>
    /\ read(store, Top.lastSet[1][1]) = <<Top.lastSet[1][2]>>

\* the savepoints of the Hosts that have taken one, oldest Host first
Taken(i) == stack[i].pc # "created"

\* C3: savepoints follow stack discipline.  A savepoint is captured by the
\* newest Host while all its ancestors hold theirs, at a journal position
\* not below theirs; a rollback is issued by the newest Host, to its own
\* savepoint, while every ancestor is still executing (so no ancestor has
\* rolled back yet), and it targets a position the journal still has.
SavepointsLIFO ==
    [][ /\ \A i \in 1..Len(stack') : \A j \in 1..Len(stack') :
             (i < j /\ Taken(j)') =>
                /\ Taken(i)'
                /\ stack'[i].pc = "executing"
                /\ stack'[i].savepoint <= stack'[j].savepoint
        /\ \A i \in 1..Len(stack') :
             stack'[i].pc = "executing" => stack'[i].savepoint <= current(store')
        /\ event'.op = "current" =>
             /\ event'.host = Len(stack')
             /\ event'.savepoint = stack'[Len(stack')].savepoint
        /\ event'.op = "rollback" =>
             /\ event'.host = Len(stack')
             /\ event'.savepoint = stack'[Len(stack')].savepoint
             /\ event'.savepoint <= current(store)
             /\ current(store') = event'.savepoint
      ]_vars

\* C3 witness: a nested Host rolled back to a savepoint above its parent's,
\* discarding journal records.
SavepointsLIFOWitness ==
    /\ Len(stack) >= 2
    /\ event.op = "rollback"
    /\ event.host = Len(stack)
    /\ stack[Len(stack) - 1].savepoint < event.savepoint
    /\ Top.lastSet # <<>>

\* C4: rollback is exact.  For every savepoint S a Host holds, rollback(S)
\* yields exactly the storage content at the time S was captured: slots
\* written after S (once or several times) revert, slots written before S
\* keep their values.
SavepointRollbackExact ==
    \A i \in 1..Len(stack) :
        stack[i].pc = "executing" =>
            rollback(store, stack[i].savepoint).kv = stack[i].snap

\* C4 witness: a Host holds a savepoint taken over a non-empty storage and
\* at least two writes (one of them by set) were journaled after it.
SavepointRollbackWitness ==
    /\ Executing
    /\ Top.snap # {}
    /\ current(store) >= Top.savepoint + 2
    /\ Top.lastSet # <<>>
    /\ store.kv # Top.snap

\* C5: the key codec round-trips.  For a non-empty table without separator
\* and a non-empty key, decoding the encoded pair gives the pair back.
KeyCodecRoundTrip ==
    (/\ stateKey[1] # <<>>
     /\ ~Contains(stateKey[1], TABLE_KEY_SPLIT)
     /\ stateKey[2] # <<>>) =>
        /\ dbKey = encode(stateKey)
        /\ decoded.ok
        /\ decoded.key = stateKey

\* C5 witness: a pair whose key itself holds a separator was encoded and
\* decoded back.
KeyCodecRoundTripWitness ==
    /\ stateKey[1] # <<>>
    /\ ~Contains(stateKey[1], TABLE_KEY_SPLIT)
    /\ Contains(stateKey[2], TABLE_KEY_SPLIT)
    /\ Len(stateKey[2]) >= 2
    /\ decoded.ok

\* the flat key has no separator, or its first separator is its first or
\* its last byte
Malformed(buffer) ==
    LET pos == Find(buffer, TABLE_KEY_SPLIT, 1) IN
    pos = 0 \/ pos = 1 \/ pos = Len(buffer)

\* C6: decoding a malformed flat key fails with InvalidStateKey and yields
\* no state key.
MalformedKeyRejected ==
    (decoded.error # "none" /\ Malformed(dbKey)) =>
        /\ ~decoded.ok
        /\ decoded.error = "InvalidStateKey"
        /\ decoded.key = <<>>

\* C6 witness: a flat key with a non-empty table whose first separator is
\* its last byte was rejected.
MalformedKeyWitness ==
    /\ Len(dbKey) >= 2
    /\ Find(dbKey, TABLE_KEY_SPLIT, 1) = Len(dbKey)
    /\ decoded = InvalidStateKey

\* C7: when the interpreter fails in create(), the Host rolls back to its
\* own savepoint, the code table and the new contract's code-hash field are
\* what they were at the savepoint, and the result is the interpreter's
\* result, with no created address attached.
CreateFailurePropagates ==
    (Returned /\ IsCreate(Top) /\ Failed(Top)) =>
        /\ event.op = "rollback"
        /\ event.savepoint = Top.savepoint
        /\ current(store) = Top.savepoint
        /\ CodeTable(store.kv) = CodeTable(Top.snap)
        /\ read(store, <<Top.m_myContractTable, ACCOUNT_CODE_HASH>>)
             = read(View(Top.snap), <<Top.m_myContractTable, ACCOUNT_CODE_HASH>>)
        /\ Top.result = Top.vmResult
        /\ Top.result.create_address = EMPTY_ADDRESS

\* C7 witness: a nested create() whose interpreter failed with output bytes
\* has returned, and its contract has no code.
CreateFailureWitness ==
    /\ Len(stack) >= 2
    /\ Returned
    /\ IsCreate(Top)
    /\ Failed(Top)
    /\ Top.vmResult.output # <<>>
    /\ code(store, Top.m_newContractAddress) = <<>>

\* C8: when the interpreter succeeds in create(), the result carries the
\* address derived at construction, that address names the Host's table,
\* and the code found at that address is exactly the interpreter's output.
CreateStoresOutput ==
    (Returned /\ IsCreate(Top) /\ ~Failed(Top)) =>
        /\ Top.result.create_address = Top.m_newContractAddress
        /\ Top.m_myContractTable = getTableNameID(Top.result.create_address)
        /\ Top.result.output = Top.vmResult.output
        /\ Top.result.status_code = EVMC_SUCCESS
        /\ code(store, Top.result.create_address) = <<Top.vmResult.output>>

\* C8 witness: a nested create() has returned success with an output that
\* differs from its creation input.
CreateStoresOutputWitness ==
    /\ Len(stack) >= 2
    /\ Returned
    /\ IsCreate(Top)
    /\ ~Failed(Top)
    /\ Top.vmResult.output # Top.message.input_data
    /\ code(store, Top.result.create_address) # <<>>

\* the bytes of "10_1_0"
Text_10_1_0 == <<49, 48, 95, 49, 95, 48>>

\* a successful top-level CREATE at (blockNumber 10, contextId 1, sequence 0)
\* has returned
TopCreateDone ==
    /\ Len(stack) = 1
    /\ Returned
    /\ Top.message.kind = "EVMC_CREATE"
    /\ ~Failed(Top)
    /\ tx = [number |-> 10, contextID |-> 1]

\* C9 as stated: the created address is derived from "10_1_0", exactly one
\* code-table entry was added, keyed by the hash of the input B, and the
\* code-hash field is hash(B).
TopCreateKeyedByInput ==
    TopCreateDone =>
        LET B == Top.message.input_data IN
        /\ Top.result.create_address = SubSeq(hash(Text_10_1_0), 1, AddressSize)
        /\ Cardinality(CodeTable(store.kv) \ CodeTable(Top.snap)) = 1
        /\ existsOne(store, <<SYS_CODE_BINARY, hash(B)>>)
        /\ ~existsOne(View(Top.snap), <<SYS_CODE_BINARY, hash(B)>>)
        /\ read(store, <<Top.m_myContractTable, ACCOUNT_CODE_HASH>>) = <<hash(B)>>

\* C9 amended: the created address is derived from "10_1_0"; the code table
\* has an entry under hash(O), O being the interpreter's output (not the
\* input B), written with O if that hash was absent; the Host's own code
\* storage adds no other entry, and the contract's code-hash field is
\* hash(O).
TopCreateKeyedByOutput ==
    [][ TopCreateDone' =>
          LET O == stack'[1].vmResult.output
              table == stack'[1].m_myContractTable
          IN /\ stack'[1].result.create_address
                  = SubSeq(hash(Text_10_1_0), 1, AddressSize)
             /\ table = getTableNameID(stack'[1].result.create_address)
             /\ existsOne(store', <<SYS_CODE_BINARY, hash(O)>>)
             /\ ~existsOne(store, <<SYS_CODE_BINARY, hash(O)>>) =>
                   read(store', <<SYS_CODE_BINARY, hash(O)>>) = <<O>>
             /\ read(store', <<table, ACCOUNT_CODE_HASH>>) = <<hash(O)>>
             /\ CodeTable(store'.kv) \ CodeTable(store.kv)
                  \subseteq {<<<<SYS_CODE_BINARY, hash(O)>>, O>>}
      ]_vars

\* C9 witness: such a CREATE has returned with an output other than B.
TopCreateWitness ==
    /\ TopCreateDone
    /\ Top.vmResult.output # Top.message.input_data
    /\ Top.result.create_address = SubSeq(hash(Text_10_1_0), 1, AddressSize)

\* the code of the target of a call-kind message is absent or zero-length
NoCode(st, message) ==
    \/ code(st, message.code_address) = <<>>
    \/ code(st, message.code_address) = << <<>> >>

\* C10: execute() of a call whose target has no code or zero-length code
\* throws NotFoundCodeError: no Host is left to return a result, no
\* savepoint is captured, no interpreter runs and the storage is untouched.
CallWithoutCodeIsFatal ==
    [][ (/\ stack # <<>>
         /\ Top.pc = "created"
         /\ stack' # stack
         /\ ~IsCreate(Top)
         /\ NoCode(store, Top.message)) =>
            /\ fatal' = "NotFoundCodeError"
            /\ stack' = <<>>
            /\ store' = store
            /\ event' = Thrown(Len(stack))
            /\ ret' = NoRet
      ]_vars

\* C10 witness: the top-level call to 0xAA.. was thrown out although its
\* code-hash field points to a (zero-length) code entry.
CallWithoutCodeWitness ==
    /\ fatal = "NotFoundCodeError"
    /\ steps = 0
    /\ code(store, AddrAA) = << <<>> >>

\* C11: when call() finishes, it has rolled back (to its own savepoint) if
\* and only if the interpreter's status is not success; on success the
\* storage, with every write of the run, is left as it is; either way the
\* result handed back is the interpreter's result.
CallRollsBackIffFailed ==
    [][ (Executing /\ ~IsCreate(Top) /\ Returned') =>
          LET h == stack'[Len(stack')] IN
          /\ (event'.op = "rollback") <=> (h.vmResult.status_code # EVMC_SUCCESS)
          /\ event'.op = "rollback" =>
                /\ event'.savepoint = h.savepoint
                /\ store' = rollback(store, h.savepoint)
          /\ event'.op # "rollback" => store' = store
          /\ h.result = h.vmResult
          /\ Len(stack) = 1 => ret'.value = h.vmResult
      ]_vars

\* C11 witness: a nested call whose run journaled writes has finished with
\* success, without a rollback, and its latest write is in storage.
CallSuccessWitness ==
    /\ Len(stack) >= 2
    /\ Returned
    /\ ~IsCreate(Top)
    /\ ~Failed(Top)
    /\ event = NoEvent
    /\ current(store) > Top.savepoint
    /\ Top.lastSet # <<>>
    /\ read(store, Top.lastSet[1][1]) = <<Top.lastSet[1][2]>>

NestedDispatchIncrementsSeq ==
    [][ /\ seq' # seq =>
              /\ Executing
              /\ seq' = seq + 1
              /\ Len(stack') = Len(stack) + 1 \/ fatal' = "Unimplement"
        /\ (Len(stack) >= 1 /\ Len(stack') = Len(stack) + 1) =>
              LET child == stack'[Len(stack')] IN
              /\ seq' = seq + 1
              /\ child.seq0 = seq'
              /\ child.pc = "created"
              /\ child.message.kind = "EVMC_CREATE" =>
                    /\ child.m_newContractAddress
                         = newContractAddress(tx.number, tx.contextID, seq')
                    /\ child.m_myContractTable
                         = getTableNameID(child.m_newContractAddress)
        /\ (Executing /\ fatal' = "Unimplement") => seq' = seq + 1
      ]_vars

\* C13 witness: after a precompiled call and two nested dispatches the
\* counter is 2 and the newest Host, a CREATE, was constructed with 2.
NestedDispatchWitness ==
    /\ Len(stack) = 3
    /\ steps = 3
    /\ seq = 2
    /\ stack[2].seq0 = 1
    /\ Top.seq0 = 2
    /\ Top.message.kind = "EVMC_CREATE"
    /\ Top.m_newContractAddress = newContractAddress(tx.number, tx.contextID, 2)

\* C14: when externalCall finishes a child Host, the parent's logs become
\* its logs followed by the child's if the child's result is success, and
\* stay as they are otherwise (whatever the child had merged from its own
\* children); nothing else of the parent changes its logs at that step.
ChildLogsMergedOnSuccessOnly ==
    [][ (Len(stack) >= 2 /\ Top.pc = "returned"
         /\ Len(stack') = Len(stack) - 1) =>
          LET child == Top
              parent == stack[Len(stack) - 1]
              after == stack'[Len(stack')]
          IN /\ after.m_logs =
                  IF child.result.status_code = EVMC_SUCCESS
                  THEN parent.m_logs \o child.m_logs
                  ELSE parent.m_logs
             /\ ret'.op = "externalCall"
             /\ ret'.value = child.result
      ]_vars

\* C14 witness: a child that had merged a log of its successful child has
\* failed, and its parent holds no log of either.
ChildLogsDiscardedWitness ==
    /\ ret.op = "externalCall"
    /\ ret.value.status_code # EVMC_SUCCESS
    /\ \E i \in 1..Len(ret.logs) : ret.logs[i].host = Len(stack) + 2
    /\ \A i \in 1..Len(Top.m_logs) : Top.m_logs[i].host = Len(stack)

\* the code-hash fields of a storage content
CodeHashFields(kv) == {r \in kv : r[1][2] = ACCOUNT_CODE_HASH}

\* the journaled writes to the code table
CodeWrites(st) ==
    {i \in 1..Len(st.records) : st.records[i][1][1] = SYS_CODE_BINARY}

\* C15: code is stored once per hash.  Every code-hash field holds the hash
\* of a code the code table has under that hash, in exactly one entry,
\* however many contracts stored that code; and every write the code table
\* got found no entry under its key, so no entry was ever rewritten.
CodeDeduplicated ==
    /\ \A f \in CodeHashFields(store.kv) :
          /\ Cardinality({r \in CodeTable(store.kv) : r[1][2] = f[2]}) = 1
          /\ \A r \in CodeTable(store.kv) : r[1][2] = f[2] => hash(r[2]) = f[2]
    /\ \A i \in CodeWrites(store) : store.records[i][2] = <<>>
    /\ \A i \in CodeWrites(store) : \A j \in CodeWrites(store) :
          store.records[i][1] = store.records[j][1] => i = j

\* C15 witness: two contracts hold the code-hash of the same code, and the
\* code table has one entry, written once.
CodeDeduplicatedWitness ==
    /\ Cardinality({f \in CodeHashFields(store.kv) : f[2] = hash(CodeB)}) = 2
    /\ Cardinality(CodeTable(store.kv)) = 1
    /\ Cardinality(CodeWrites(store)) = 1

\* C16: two CREATE Hosts, constructed for any two messages, derive the same
\* address if and only if their block numbers, their context ids and the
\* counter values they were constructed with are equal.
CreateAddressDeterminism ==
    derived # <<>> =>
        LET a == derived[1]
            b == derived[2]
        IN (a.address = b.address)
             <=> (/\ a.number = b.number
                  /\ a.contextID = b.contextID
                  /\ a.seq = b.seq)

\* C16 witness: block 1 with context 12 and block 11 with context 2, whose
\* decimal digits run together to the same text, at the same counter value,
\* got different addresses.
CreateAddressWitness ==
    /\ derived # <<>>
    /\ derived[1].number = 1
    /\ derived[1].contextID = 12
    /\ derived[2].number = 11
    /\ derived[2].contextID = 2
    /\ derived[1].seq = derived[2].seq
    /\ derived[1].address # derived[2].address

\* C17: the step that raises a fatal condition, at whatever depth, leaves
\* no Host of the tree: none is handed a result or a status, none returns
\* one, none goes on; and nothing happens after it.
FatalUnwindsEveryHost ==
    [][ /\ (fatal = "none" /\ fatal' # "none") =>
              /\ stack' = <<>>
              /\ ret' = NoRet
              /\ event'.op = "throw"
        /\ fatal # "none" => UNCHANGED hostVars
      ]_vars

\* C17 witness: a Host at depth 3 threw NotFoundCodeError, the counter
\* having counted the two dispatches above it, and no Host is left.
FatalAtDepthWitness ==
    /\ fatal = "NotFoundCodeError"
    /\ event = Thrown(3)
    /\ seq = 2
    /\ stack = <<>>

\* C18 as stated: when a fatal condition ends a transaction whose top-level
\* Host had begun to run, the storage holds exactly what it held when that
\* Host began: none of the writes of the Hosts of the transaction.
FatalPersistsNothing ==
    [][ (/\ fatal = "none"
         /\ fatal' # "none"
         /\ stack # <<>>
         /\ stack[1].pc # "created") =>
            store'.kv = stack[1].snap
      ]_vars

NoCodeHash(st, address) ==
    ~\E r \in st.kv : r[1] = <<getTableNameID(address), ACCOUNT_CODE_HASH>>

\* the address has a code-hash field, but the code table has no such hash
Dangling(st, address) ==
    \E r \in st.kv :
        /\ r[1] = <<getTableNameID(address), ACCOUNT_CODE_HASH>>
        /\ ~\E c \in CodeTable(st.kv) : c[1][2] = r[2]

\* C20: a read accessor changes nothing and raises nothing; for a missing
\* entry get answers the zero word, codeSizeAt 0, codeHashAt the zero hash
\* and code absent, a missing entry of the code table included.
ReadsNeverFailNorWrite ==
    [][ ret'.op \in {"get", "code", "codeSizeAt", "codeHashAt"} =>
          /\ store' = store
          /\ stack' = stack
          /\ fatal' = fatal
          /\ (ret'.op = "get"
              /\ ~\E r \in store.kv : r[1] = <<ret'.table, ret'.key>>) =>
                ret'.value = Zeros(WordSize)
          /\ (ret'.op = "codeSizeAt"
              /\ (NoCodeHash(store, ret'.address) \/ Dangling(store, ret'.address))) =>
                ret'.value = 0
          /\ (ret'.op = "codeHashAt" /\ NoCodeHash(store, ret'.address)) =>
                ret'.value = Zeros(HashSize)
          /\ (ret'.op = "code"
              /\ (NoCodeHash(store, ret'.address) \/ Dangling(store, ret'.address))) =>
                ret'.value = <<>>
      ]_vars

\* C20 witness: code() answered absent for an address whose code-hash field
\* names a hash the code table does not have, while a Host was executing.
ReadsWitness ==
    /\ ret.op = "code"
    /\ Dangling(store, ret.address)
    /\ ret.value = <<>>
    /\ Executing

\* a table name encode may be given: not empty, no separator in it
WellFormedTable(table) == table # <<>> /\ ~Contains(table, TABLE_KEY_SPLIT)

\* C21: encode is injective on well-formed pairs.  Two state keys whose
\* tables are non-empty and separator-free and whose flat keys are equal
\* are the same state key.
EncodeInjective ==
    (/\ encoded # <<>>
     /\ WellFormedTable(encoded[1].stateKey[1])
     /\ WellFormedTable(encoded[2].stateKey[1])
     /\ encoded[1].dbKey = encoded[2].dbKey) =>
        encoded[1].stateKey = encoded[2].stateKey

\* C21 witness: two well-formed pairs with tables of different lengths,
\* whose table and key bytes run together to the same text, got different
\* flat keys.
EncodeInjectiveWitness ==
    /\ encoded # <<>>
    /\ WellFormedTable(encoded[1].stateKey[1])
    /\ WellFormedTable(encoded[2].stateKey[1])
    /\ Len(encoded[1].stateKey[1]) # Len(encoded[2].stateKey[1])
    /\ encoded[1].stateKey[1] \o encoded[1].stateKey[2]
         = encoded[2].stateKey[1] \o encoded[2].stateKey[2]
    /\ encoded[1].dbKey # encoded[2].dbKey

\* C22 as stated: the table name a Host derives has no separator in it, so
\* the flat key of each of its state keys decodes back to that state key.
HostTableSeparatorFree ==
    stateKey[1] # <<>> =>
        /\ ~Contains(stateKey[1], TABLE_KEY_SPLIT)
        /\ decoded.ok
        /\ decoded.key = stateKey

\* the step is a set() of the newest Host: an interpreter callback that
\* hands nothing back, emits no log and leaves the tree as it is
SetStep ==
    /\ Executing
    /\ Len(stack') = Len(stack)
    /\ stack'[Len(stack')].pc = "executing"
    /\ steps' = steps + 1
    /\ ret' = NoRet
    /\ stack'[Len(stack')].m_logs = Top.m_logs

\* C23: writes are visible at once.  After set(key, value) every Host of
\* the tree whose table is the writer's reads value under key, whatever
\* was there, and every other slot reads as before; and what a Host reads
\* under a slot changes in no other way than by a set of that slot or by a
\* rollback below a journaled write of it.
WritesVisible ==
    [][ /\ SetStep =>
              LET w == stack'[Len(stack')].lastSet[1] IN
              /\ w[1][1] = Top.m_myContractTable
              /\ \A i \in 1..Len(stack) : \A k \in Slots :
                    get(store', stack[i].m_myContractTable, k)
                      = IF <<stack[i].m_myContractTable, k>> = w[1]
                        THEN w[2]
                        ELSE get(store, stack[i].m_myContractTable, k)
        /\ \A i \in 1..Len(stack) : \A k \in Slots :
              LET slot == <<stack[i].m_myContractTable, k>> IN
              get(store', slot[1], k) # get(store, slot[1], k) =>
                 \/ SetStep /\ stack'[Len(stack')].lastSet[1][1] = slot
                 \/ /\ event'.op = "rollback"
                    /\ \E j \in (event'.savepoint + 1)..Len(store.records) :
                          store.records[j][1] = slot
      ]_vars

\* C23 witness: a Host wrote a slot, a nested Host on the same table (a
\* delegate call) overwrote it with another value, and both read the
\* nested Host's value.
WritesVisibleWitness ==
    /\ Len(stack) = 2
    /\ Executing
    /\ Top.m_myContractTable = stack[1].m_myContractTable
    /\ stack[1].lastSet # <<>>
    /\ Top.lastSet # <<>>
    /\ Top.lastSet[1][1] = stack[1].lastSet[1][1]
    /\ Top.lastSet[1][2] # stack[1].lastSet[1][2]
    /\ get(store, stack[1].m_myContractTable, Top.lastSet[1][1][2])
         = Top.lastSet[1][2]

\* C24 as stated: the sender a nested CREATE Host sees is the contract
\* address of the Host that dispatched it (the interpreter passes that
\* address or leaves the sender zero), never the zero address.
NestedCreateSenderIsParent ==
    \A i \in 2..Len(stack) :
        stack[i].message.kind = "EVMC_CREATE" =>
            /\ stack[i].message.sender # EMPTY_ADDRESS
            /\ stack[i].message.sender = Self(stack[i - 1])

\* C25: the tree is sequential.  Every Host below the newest one is
\* suspended inside externalCall and stays exactly as it is while a
\* descendant is alive; the storage is operated on only while a Host is the
\* newest one, by that Host (savepoint operations carry its depth, a
\* returning externalCall touches no storage); and the journal only grows
\* at its end or is cut at its end, so operations take effect in the order
\* they are issued.
TreeSequential ==
    [][ /\ \A i \in 1..(Len(stack') - 1) : stack'[i].pc = "executing"
        /\ Len(stack') >= Len(stack) =>
              \A i \in 1..(Len(stack) - 1) : stack'[i] = stack[i]
        /\ (Len(stack') = Len(stack) - 1 /\ Len(stack') >= 1) =>
              /\ store' = store
              /\ \A i \in 1..(Len(stack') - 1) : stack'[i] = stack[i]
        /\ store' # store => (stack # <<>> /\ Len(stack') = Len(stack))
        /\ event'.op \in {"current", "rollback"} => event'.host = Len(stack)
        /\ LET n == Len(store.records)
               m == Len(store'.records)
           IN IF m >= n
              THEN SubSeq(store'.records, 1, n) = store.records
              ELSE store'.records = SubSeq(store.records, 1, m)
      ]_vars

\* C25 witness: the newest of three Hosts has written a slot while its two
\* ancestors, which wrote nothing, hold their savepoints.
TreeSequentialWitness ==
    /\ Len(stack) = 3
    /\ Executing
    /\ Top.lastSet # <<>>
    /\ current(store) > Top.savepoint
    /\ stack[1].lastSet = <<>>
    /\ stack[2].lastSet = <<>>

Addressed(answer, flag) ==
    \/ answer.by = "flag" /\ answer.flag = flag
    \/ answer.by = "name" /\ answer.name = featureKeys[flag]

TableOf(kv, address) == {r \in kv : r[1][1] = getTableNameID(address)}

\* C28: a Host for a message that is no creation has the table of the
\* message's recipient; its set() writes into that table and leaves the
\* table of the code address alone when the two differ; and whether
\* execute() finds code to run depends on the code stored for the code
\* address.
TableFromRecipient ==
    /\ [](\A i \in 1..Len(stack) :
            ~IsCreate(stack[i]) =>
                stack[i].m_myContractTable
                    = getTableNameID(stack[i].message.recipient))
    /\ [][ /\ (SetStep /\ ~IsCreate(Top)) =>
               LET w == stack'[Len(stack')].lastSet[1] IN
               /\ w[1][1] = getTableNameID(Top.message.recipient)
               /\ store'.records[Len(store'.records)][1] = w[1]
               /\ get(store', getTableNameID(Top.message.recipient), w[1][2])
                     = w[2]
               /\ Top.message.code_address # Top.message.recipient =>
                     TableOf(store'.kv, Top.message.code_address)
                       = TableOf(store.kv, Top.message.code_address)
           /\ (stack # <<>> /\ Top.pc = "created" /\ ~IsCreate(Top)
                  /\ stack' # stack) =>
               IF NoCode(store, Top.message)
               THEN stack' = <<>> /\ fatal' = "NotFoundCodeError"
               ELSE stack'[Len(stack')].pc = "executing"
         ]_vars

\* C28 witness: a delegate call whose recipient is a freshly created
\* contract and whose code address is another contract has written a slot:
\* the slot is in the recipient's table, the code address's table has none.
TableFromRecipientWitness ==
    /\ Executing
    /\ Top.message.kind = "EVMC_DELEGATECALL"
    /\ Top.message.code_address # Top.message.recipient
    /\ Top.lastSet # <<>>
    /\ \E k \in Slots :
          /\ get(store, getTableNameID(Top.message.recipient), k) \in Values
          /\ \A j \in Slots :
                get(store, getTableNameID(Top.message.code_address), j)
                    \notin Values

\* the code address is strictly between 0 and the ceiling and the registry
\* has a handler for it
Reserved(message) ==
    /\ 0 < fromBigEndian(message.code_address)
    /\ fromBigEndian(message.code_address) < MAX_PRECOMPILED_ADDRESS
    /\ fromBigEndian(message.code_address) \in PrecompiledAddresses

\* C29: externalCall hands a message to a precompiled handler exactly when
\* its code address is strictly between 0 and 100000 and the registry has a
\* handler for it.  A message served by a handler is such a message, and
\* neither the counter nor the tree changes; a message that gets a child
\* Host (or whose child's constructor throws) is not, and the counter goes
\* up by one.
PrecompiledIffReserved ==
    [][ /\ (ret'.op = "precompiled" /\ steps' = steps + 1) =>
              /\ Reserved(ret'.message)
              /\ seq' = seq
              /\ Len(stack') = Len(stack)
        /\ (Executing /\ Len(stack') = Len(stack) + 1) =>
              /\ ~Reserved(stack'[Len(stack')].message)
              /\ seq' = seq + 1
              /\ stack'[Len(stack')].pc = "created"
        /\ (Executing /\ fatal' = "Unimplement") => seq' = seq + 1
        /\ (Executing /\ seq' # seq) =>
              /\ seq' = seq + 1
              /\ ret'.op # "precompiled"
              /\ Len(stack') = Len(stack) + 1 \/ fatal' = "Unimplement"
      ]_vars

\* C29 witness: a call to address 100000, for which the registry has a
\* handler, was dispatched normally: the counter has gone up and the child
\* Host is there.
PrecompiledIffReservedWitness ==
    /\ Len(stack) = 2
    /\ fromBigEndian(Top.message.code_address) = MAX_PRECOMPILED_ADDRESS
    /\ getPrecompiled(MAX_PRECOMPILED_ADDRESS)
    /\ Top.pc = "created"
    /\ seq = 1

\* a call to address 0, for which the registry has a handler as well, was
\* dispatched normally
ZeroAddressDispatched ==
    /\ Len(stack) = 2
    /\ Top.message.kind = "EVMC_CALL"
    /\ fromBigEndian(Top.message.code_address) = 0
    /\ getPrecompiled(0)

\* the logs the live Hosts hold, oldest Host first
RECURSIVE HeldLogs(_)
HeldLogs(stk) ==
    IF stk = <<>> THEN <<>>
    ELSE HeldLogs(SubSeq(stk, 1, Len(stk) - 1)) \o stk[Len(stk)].m_logs

\* the entries of a log list are in the order they were emitted in
Chronological(logs) ==
    \A i \in 1..Len(logs) : \A j \in 1..Len(logs) :
        i < j => logs[i].at < logs[j].at

\* C30: merged logs keep their order.  The logs the live Hosts hold, taken
\* oldest Host first, are always in the order of their emission; a log()
\* puts its entry at their end; a nested call that returns success leaves
\* this list as it is, the parent now holding its own logs followed by the
\* child's in the child's order; one that returns failure removes the
\* child's logs and nothing else; no other step changes it.  So what a
\* successful top-level Host ends with are, in the order of emission, the
\* logs of the Hosts whose enclosing nested calls all succeeded.
MergedLogsChronological ==
    /\ [](Chronological(HeldLogs(stack)))
    /\ [][ /\ (Len(stack') = Len(stack) - 1 /\ Len(stack') >= 1) =>
               /\ stack'[Len(stack')].m_logs
                     = IF Top.result.status_code = EVMC_SUCCESS
                       THEN stack[Len(stack')].m_logs \o Top.m_logs
                       ELSE stack[Len(stack')].m_logs
               /\ HeldLogs(stack')
                     = IF Top.result.status_code = EVMC_SUCCESS
                       THEN HeldLogs(stack)
                       ELSE HeldLogs(SubSeq(stack, 1, Len(stack) - 1))
           /\ (Len(stack') >= Len(stack) /\ stack # <<>>) =>
               \/ HeldLogs(stack') = HeldLogs(stack)
               \/ /\ Len(stack') = Len(stack)
                  /\ Executing
                  /\ steps' = steps + 1
                  /\ Len(HeldLogs(stack')) = Len(HeldLogs(stack)) + 1
                  /\ SubSeq(HeldLogs(stack'), 1, Len(HeldLogs(stack)))
                        = HeldLogs(stack)
                  /\ stack'[Len(stack')].m_logs[Len(stack'[Len(stack')].m_logs)]
                        .at = steps'
         ]_vars

\* C30 witness: the top-level Host emitted a log, a nested Host emitted a
\* later one and returned success, and the top-level Host holds both, its
\* own first.
MergedLogsWitness ==
    /\ Len(stack) = 1
    /\ Executing
    /\ ret.op = "externalCall"
    /\ ret.value.status_code = EVMC_SUCCESS
    /\ Len(Top.m_logs) = 2
    /\ Top.m_logs[1].host = 1
    /\ Top.m_logs[2].host = 2
    /\ Top.m_logs[1].at < Top.m_logs[2].at

\* the entry under a key in a view, as an optional
Field(st, table, key) == {r[2] : r \in {q \in st.kv : q[1] = <<table, key>>}}

\* the step stored code_ for the newest Host: a setCode or setCodeAndABI of
\* its caller before execute(), or a create() that succeeded with code_
StoresCode(code_) ==
    /\ stack # <<>>
    /\ \/ /\ Top.pc = "created"
          /\ stack' = stack
          /\ store' # store
          /\ \E r \in store'.kv \ store.kv :
                \/ r = <<<<Top.m_myContractTable, ACCOUNT_CODE_HASH>>, hash(code_)>>
                \/ r = <<<<SYS_CODE_BINARY, hash(code_)>>, code_>>
                \/ r[1] = <<SYS_CONTRACT_ABI, hash(code_)>>
       \/ /\ Executing
          /\ IsCreate(Top)
          /\ Len(stack') = Len(stack)
          /\ stack'[Len(stack')].pc = "returned"
          /\ stack'[Len(stack')].vmResult.status_code = EVMC_SUCCESS
          /\ stack'[Len(stack')].vmResult.output = code_

\* C31: every code-storage operation leaves the hash of the code just
\* stored in the code-hash field of the Host's contract, whatever the field
\* held and whether or not the code table had the hash; the code table
\* holds the code under the hash if it had no entry for it and is
\* otherwise unchanged.
SetCodeWritesHashField ==
    [][ \A code_ \in Outputs :
          StoresCode(code_) =>
            /\ Field(store', Top.m_myContractTable, ACCOUNT_CODE_HASH)
                  = {hash(code_)}
            /\ Field(store', SYS_CODE_BINARY, hash(code_))
                  = IF Field(store, SYS_CODE_BINARY, hash(code_)) = {}
                    THEN {code_}
                    ELSE Field(store, SYS_CODE_BINARY, hash(code_))
      ]_vars

\* C31 witness: the contract's code-hash field held the hash of the empty
\* code, the code table had CodeB, and setCode(CodeB) has put the hash of
\* CodeB into the field without writing the code table.
SetCodeWritesHashFieldWitness ==
    /\ Len(stack) = 1
    /\ Top.pc = "created"
    /\ Len(store.records) = 1
    /\ store.records[1]
          = <<<<Top.m_myContractTable, ACCOUNT_CODE_HASH>>, <<hash(<<>>)>>>>
    /\ Field(store, Top.m_myContractTable, ACCOUNT_CODE_HASH) = {hash(CodeB)}
    /\ Field(store, SYS_CODE_BINARY, hash(CodeB)) = {CodeB}

\* the entries of the ABI table in a view
AbiTable(st) == {r \in st.kv : r[1][1] = SYS_CONTRACT_ABI}

\* C32: ABI metadata is immutable per code hash.  setCodeAndABI(code, abi)
\* puts abi under the hash of the code only if the ABI table has no entry
\* for that hash; an entry that is there stays as it is, whatever abi is;
\* every other entry of the ABI table is untouched; and the code-hash field
\* of the contract is written in both cases.
AbiWrittenOnlyIfAbsent ==
    [][ (ret'.op = "setCodeAndABI" /\ store' # store) =>
          LET codeHash == hash(ret'.code) IN
          /\ Field(store', SYS_CONTRACT_ABI, codeHash)
                = IF Field(store, SYS_CONTRACT_ABI, codeHash) = {}
                  THEN {ret'.abi}
                  ELSE Field(store, SYS_CONTRACT_ABI, codeHash)
          /\ {r \in AbiTable(store') : r[1][2] # codeHash}
                = {r \in AbiTable(store) : r[1][2] # codeHash}
          /\ Field(store', Top.m_myContractTable, ACCOUNT_CODE_HASH) = {codeHash}
          /\ store'.records[Len(store'.records)][1][1] = SYS_CONTRACT_ABI
                <=> Field(store, SYS_CONTRACT_ABI, codeHash) = {}
      ]_vars

\* C32 witness: setCodeAndABI came with an ABI other than the one the ABI
\* table had for the code: the entry is as it was, and the code-hash field,
\* which held another hash, was written.
AbiWrittenOnlyIfAbsentWitness ==
    /\ ret.op = "setCodeAndABI"
    /\ ret.abi = ABI2
    /\ Field(store, SYS_CONTRACT_ABI, hash(ret.code)) = {ABI1}
    /\ Field(store, Top.m_myContractTable, ACCOUNT_CODE_HASH) = {hash(ret.code)}
    /\ store.records
          = <<<<<<Top.m_myContractTable, ACCOUNT_CODE_HASH>>, <<hash(<<>>)>>>>>>

\* Host i is no longer where it was: it has moved on or is gone
Leaves(i, pc) ==
    /\ stack[i].pc = pc
    /\ (i > Len(stack') \/ stack'[i].pc # pc)

\* C33 as stated: each Host goes Created -> Executing -> one terminal
\* state.  A Host leaves Created only by taking a savepoint and entering
\* Executing; it leaves Executing only as the newest Host, with the status
\* of its interpreter, either committed (success, no rollback, the journal
\* kept) or rolled back (non-success, one rollback, to its own savepoint);
\* and a Host that has returned has left the tree when its parent goes on.
HostEndsCommittedOrRolledBack ==
    [][ \A i \in 1..Len(stack) :
          /\ Leaves(i, "created") =>
                /\ i = Len(stack) /\ Len(stack') = Len(stack)
                /\ stack'[i].pc = "executing"
                /\ event' = [op |-> "current", savepoint |-> stack'[i].savepoint,
                             host |-> i]
                /\ stack'[i].savepoint = current(store)
          /\ Leaves(i, "executing") =>
                /\ i = Len(stack) /\ Len(stack') = Len(stack)
                /\ stack'[i].pc = "returned"
                /\ IF stack'[i].vmResult.status_code = EVMC_SUCCESS
                   THEN /\ event'.op # "rollback"
                        /\ SubSeq(store'.records, 1, Len(store.records))
                              = store.records
                   ELSE /\ event' = [op |-> "rollback",
                                     savepoint |-> stack[i].savepoint, host |-> i]
                        /\ store' = rollback(store, stack[i].savepoint)
          /\ Leaves(i, "returned") =>
                /\ i = Len(stack) /\ Len(stack') = Len(stack) - 1
                /\ event'.op \notin {"current", "rollback"}
      ]_vars

\* the step is a fatal condition: an exception leaves every Host
FatalStep == fatal = "none" /\ fatal' # "none"

\* C33: the states of a Host, with the fatal conditions.  Unless a fatal
\* condition ends the tree, a Host leaves Created only by taking one
\* savepoint and entering Executing, leaves Executing only as the newest
\* Host with its interpreter's status, committed (success, no rollback) or
\* rolled back (non-success, one rollback, to its own savepoint), and is
\* gone once its parent goes on.  A fatal condition ends every Host where
\* it is, in Created or Executing, with no savepoint taken, no rollback
\* and no status.
HostStatesWithFatal ==
    [][ \A i \in 1..Len(stack) :
          IF FatalStep
          THEN /\ stack' = <<>>
               /\ event'.op = "throw"
               /\ store' = store
               /\ ret' = NoRet
          ELSE
          /\ Leaves(i, "created") =>
                /\ i = Len(stack) /\ Len(stack') = Len(stack)
                /\ stack'[i].pc = "executing"
                /\ event' = [op |-> "current", savepoint |-> stack'[i].savepoint,
                             host |-> i]
                /\ stack'[i].savepoint = current(store)
          /\ Leaves(i, "executing") =>
                /\ i = Len(stack) /\ Len(stack') = Len(stack)
                /\ stack'[i].pc = "returned"
                /\ IF stack'[i].vmResult.status_code = EVMC_SUCCESS
                   THEN /\ event'.op # "rollback"
                        /\ SubSeq(store'.records, 1, Len(store.records))
                              = store.records
                   ELSE /\ event' = [op |-> "rollback",
                                     savepoint |-> stack[i].savepoint, host |-> i]
                        /\ store' = rollback(store, stack[i].savepoint)
          /\ Leaves(i, "returned") =>
                /\ i = Len(stack) /\ Len(stack') = Len(stack) - 1
                /\ event'.op \notin {"current", "rollback"}
      ]_vars

\* C33 witness: a nested Host that wrote has ended rolled back, to its own
\* savepoint, which is not its parent's: the parent had written before.
HostStatesWitness ==
    /\ Len(stack) = 2
    /\ Top.pc = "returned"
    /\ Top.vmResult.status_code # EVMC_SUCCESS
    /\ event = [op |-> "rollback", savepoint |-> Top.savepoint, host |-> 2]
    /\ Top.savepoint > stack[1].savepoint
    /\ Top.lastSet # <<>>
    /\ current(store) = Top.savepoint

\* C34: exists answers true for every address, whatever the storage holds
\* for it, and neither the storage nor its journal, nor any Host, changes.
ExistsAlwaysTrue ==
    [][ ret'.op = "exists" =>
          /\ ret'.value = TRUE
          /\ store' = store
          /\ stack' = stack
          /\ fatal' = fatal
          /\ event' = NoEvent
      ]_vars

\* C34 witness: exists answered true for an address that has no code, no
\* code-hash field and no entry at all in a storage that is not empty.
ExistsWitness ==
    /\ ret.op = "exists"
    /\ ret.value
    /\ store.kv # {}
    /\ TableOf(store.kv, ret.address) = {}
    /\ code(store, ret.address) = <<>>
    /\ NoCodeHash(store, ret.address)

\* the step is a nested dispatch that is not served by a handler: a child
\* Host is constructed, or its constructor throws
Dispatches ==
    /\ Executing
    /\ steps' = steps + 1
    /\ \/ Len(stack') = Len(stack) + 1
       \/ FatalStep /\ fatal' = "Unimplement"

\* C35: the counter counts the nested dispatches of the tree and nothing
\* takes a count back.  It never decreases; it goes up by one at a step
\* exactly if the step is a dispatch not served by a handler, the one whose
\* child's constructor throws included; and a step that rolls the storage
\* back, hands a child's result (failed or not) to its parent, or raises a
\* fatal condition inside a running Host leaves it as it is.
CounterCountsDispatches ==
    [][ /\ seq' >= seq
        /\ seq' = seq + 1 <=> Dispatches
        /\ ~Dispatches => seq' = seq
        /\ event'.op = "rollback" => seq' = seq
        /\ (~FatalStep /\ Len(stack') = Len(stack) - 1) => seq' = seq
        /\ (FatalStep /\ fatal' # "Unimplement") => seq' = seq
        /\ \A i \in 1..Len(stack) : seq >= stack[i].seq0
      ]_vars

\* C35 witness: two children were dispatched and the second has handed a
\* failure back to the top-level Host: the counter is 2.
CounterCountsDispatchesWitness ==
    /\ Len(stack) = 1
    /\ Executing
    /\ ret.op = "externalCall"
    /\ ret.value.status_code # EVMC_SUCCESS
    /\ steps = 2
    /\ seq = 2

\* the tree has unwound after a fatal condition of a constructor, and the
\* counter holds that dispatch too
CounterAfterFatalWitness ==
    /\ stack = <<>>
    /\ fatal = "Unimplement"
    /\ steps = 2
    /\ seq = 2

\* C36: every Host of a tree is constructed at its own value of the
\* counter.  The top-level Host has the initial value, the values of the
\* live Hosts grow strictly from parent to child, none is above the
\* counter, and a child is constructed at a value above the counter as it
\* was, hence above the value of every Host before it.  So the CREATE
\* Hosts alive have pairwise different addresses and tables, and a CREATE
\* child's table is one no earlier Host of the tree has written: it is
\* empty when the child is constructed.
HostsAtDistinctSeq ==
    /\ [](/\ stack # <<>> => stack[1].seq0 = 0
          /\ \A i \in 1..Len(stack) : stack[i].seq0 <= seq
          /\ \A i \in 1..Len(stack) : \A j \in 1..Len(stack) :
                i < j =>
                  /\ stack[i].seq0 < stack[j].seq0
                  /\ (IsCreate(stack[i]) /\ IsCreate(stack[j])) =>
                        /\ stack[i].m_newContractAddress
                              # stack[j].m_newContractAddress
                        /\ stack[i].m_myContractTable
                              # stack[j].m_myContractTable)
    /\ [][ (stack # <<>> /\ Len(stack') = Len(stack) + 1) =>
              LET child == stack'[Len(stack')] IN
              /\ child.seq0 > seq
              /\ \A i \in 1..Len(stack) : child.seq0 > stack[i].seq0
              /\ IsCreate(child) =>
                    /\ child.m_newContractAddress
                          = SubSeq(hash(Format(tx.number, tx.contextID, child.seq0)),
                                   1, AddressSize)
                    /\ TableOf(store.kv, child.m_newContractAddress) = {}
         ]_vars

\* C36 witness: a CREATE child is constructed at 2 in a CREATE Host
\* constructed at 0, after the child constructed at 1, a CREATE as well,
\* has stored its code and gone: three addresses, all different.
HostsAtDistinctSeqWitness ==
    /\ Len(stack) = 2
    /\ IsCreate(stack[1]) /\ IsCreate(Top)
    /\ stack[1].seq0 = 0
    /\ Top.seq0 = 2
    /\ Top.pc = "created"
    /\ NoCodeHash(store, Top.m_newContractAddress)
    /\ ~NoCodeHash(store, newContractAddress(tx.number, tx.contextID, 1))
    /\ Top.m_newContractAddress # newContractAddress(tx.number, tx.contextID, 1)
    /\ Top.m_newContractAddress # stack[1].m_newContractAddress

\* C37: a creation whose interpreter succeeds with empty output commits
\* all the same.  The new contract's code-hash field holds the hash of the
\* empty code, the code table has the empty code under it, nothing is
\* rolled back and the result carries the created address; and execute()
\* of a call whose code address has that empty code throws
\* NotFoundCodeError instead of running it.
EmptyCreateCommits ==
    /\ []((Returned /\ IsCreate(Top) /\ ~Failed(Top)
             /\ Top.vmResult.output = <<>>) =>
            /\ Field(store, Top.m_myContractTable, ACCOUNT_CODE_HASH)
                  = {hash(<<>>)}
            /\ Field(store, SYS_CODE_BINARY, hash(<<>>)) = {<<>>}
            /\ Top.result.status_code = EVMC_SUCCESS
            /\ Top.result.create_address = Top.m_newContractAddress
            /\ event.op # "rollback"
            /\ current(store) > Top.savepoint)
    /\ [][ (/\ stack # <<>>
            /\ Top.pc = "created"
            /\ ~IsCreate(Top)
            /\ Field(store, getTableNameID(Top.message.code_address),
                     ACCOUNT_CODE_HASH) = {hash(<<>>)}
            /\ Field(store, SYS_CODE_BINARY, hash(<<>>)) = {<<>>}
            /\ stack' # stack) =>
              /\ fatal' = "NotFoundCodeError"
              /\ stack' = <<>>
              /\ store' = store
              /\ event' = Thrown(Len(stack))
         ]_vars

\* C37 witness: a nested creation returned success with empty output, and
\* the later call to the address it created has thrown NotFoundCodeError.
EmptyCreateWitness ==
    /\ fatal = "NotFoundCodeError"
    /\ stack = <<>>
    /\ event = Thrown(2)
    /\ seq = 2
    /\ Field(store, getTableNameID(newContractAddress(tx.number, tx.contextID, 1)),
             ACCOUNT_CODE_HASH) = {hash(<<>>)}
    /\ Field(store, SYS_CODE_BINARY, hash(<<>>)) = {<<>>}

\* C38: a Host that fails keeps its logs.  The step in which execute()
\* returns, with whatever status and with or without a rollback, leaves
\* the Host's m_logs (what logs() hands out) as it is, the logs merged from
\* successful children included; a Host that has returned loses no log
\* while it is there; and the logs of a failed child leave the tree only
\* because its parent's m_logs stays as it was.
FailedHostKeepsLogs ==
    [][ /\ (stack # <<>> /\ Leaves(Len(stack), "executing") /\ ~FatalStep) =>
              /\ stack'[Len(stack)].m_logs = Top.m_logs
              /\ event'.op = "rollback" =>
                    /\ stack'[Len(stack)].vmResult.status_code # EVMC_SUCCESS
                    /\ store' = rollback(store, Top.savepoint)
        /\ \A i \in 1..Len(stack) :
              (stack[i].pc = "returned" /\ i <= Len(stack')) =>
                  stack'[i].m_logs = stack[i].m_logs
        /\ (Returned /\ Failed(Top) /\ Len(stack') = Len(stack) - 1
              /\ Len(stack') >= 1) =>
              stack'[Len(stack')].m_logs = stack[Len(stack')].m_logs
      ]_vars

\* C38 witness: the top-level Host emitted a log, took over the log of a
\* successful child, wrote nothing that stayed, and returned a failure:
\* the storage is rolled back and both logs are still in its list.
FailedHostKeepsLogsWitness ==
    /\ Len(stack) = 1
    /\ Returned
    /\ Failed(Top)
    /\ event = [op |-> "rollback", savepoint |-> Top.savepoint, host |-> 1]
    /\ ret = [op |-> "execute", value |-> Top.result]
    /\ Len(Top.m_logs) = 2
    /\ Top.m_logs[1].host = 1
    /\ Top.m_logs[2].host = 2

\* the number of separators in a byte string
Separators(view) ==
    Cardinality({i \in 1..Len(view) : view[i] = TABLE_KEY_SPLIT})

\* C39: decode splits at the first separator only.  For a non-empty table
\* without separator and a key that holds one or more separators, the flat
\* key has one separator more than the key, and decoding it gives the table
\* and the whole key back: the key's separators, a leading or trailing one
\* included, stay in the key.
DecodeSplitsAtFirstSeparator ==
    (/\ stateKey[1] # <<>>
     /\ ~Contains(stateKey[1], TABLE_KEY_SPLIT)
     /\ Contains(stateKey[2], TABLE_KEY_SPLIT)) =>
        /\ Separators(dbKey) = Separators(stateKey[2]) + 1
        /\ Find(dbKey, TABLE_KEY_SPLIT, 1) = Len(stateKey[1]) + 1
        /\ decoded.ok
        /\ decoded.key[1] = stateKey[1]
        /\ decoded.key[2] = stateKey[2]
        /\ Separators(decoded.key[2]) = Separators(stateKey[2])
        /\ Len(decoded.key[1]) + 1 + Len(decoded.key[2]) = Len(dbKey)

\* C39 witness: a key made of two separators came back whole.
DecodeSplitsAtFirstWitness ==
    /\ stateKey[1] # <<>>
    /\ ~Contains(stateKey[1], TABLE_KEY_SPLIT)
    /\ stateKey[2] = <<TABLE_KEY_SPLIT, TABLE_KEY_SPLIT>>
    /\ Separators(dbKey) = 3
    /\ decoded.ok
    /\ decoded.key[2] = <<TABLE_KEY_SPLIT, TABLE_KEY_SPLIT>>

\* every check but the txpool nonce passes for the transaction
PassesOtherChecks(transaction) ==
    /\ ~transaction.invalid
    /\ transaction.type = "BCOSTransaction" =>
          transaction.groupId = m_groupId /\ transaction.chainId = m_chainId
    /\ transaction.ledger = "None"
    /\ transaction.signed

ErrorStatuses ==
    {"InvalidSignature", "InvalidGroupId", "InvalidChainId", "NonceCheckFail",
     "BlockLimitCheckFail"}

\* C40: verify() records the nonce in the txpool nonce checker exactly when
\* it returns None; when it returns an error status the checker holds what
\* it held before, so a transaction that passes every other check and
\* carries the nonce of the transaction just rejected is accepted unless
\* the nonce was already held
RejectedLeavesPoolNonces ==
    [][/\ verified'.status \in ErrorStatuses \cup {"None"}
       /\ verified'.status \in ErrorStatuses => txPoolNonces' = txPoolNonces
       /\ verified'.status = "None" =>
             /\ verified'.nonce \notin txPoolNonces
             /\ txPoolNonces' = txPoolNonces \cup {verified'.nonce}
       /\ ( /\ verified.status \in ErrorStatuses
            /\ verified.nonce \notin txPoolNonces
            /\ verified'.nonce = verified.nonce
            /\ PassesOtherChecks(verified'.tx) ) => verified'.status = "None"
      ]_vars

\* a transaction was rejected at the last check, the signature, and its
\* nonce is not held, while the nonce of an accepted transaction is
RejectedLeavesPoolNoncesWitness ==
    /\ verified.status = "InvalidSignature"
    /\ ~verified.tx.invalid
    /\ verified.nonce \notin txPoolNonces
    /\ txPoolNonces # {}

====
